---- MODULE Spec2Model ----
(***************************************************************************)
(* Draft advisor of liamqma/sanmou-yanwu: the draft state machine          *)
(* (services/gameLogic), the session reducer (context/GameContext), the    *)
(* SetupForm and GameBoard handlers, and the recommendation engine         *)
(* (services/recommendationEngine, last revision in the file).             *)
(*                                                                         *)
(* Heroes and skills are strings in the code; here they are integers and   *)
(* the integer order stands for the string order Array.prototype.sort      *)
(* uses.  A joined key "a,b,c" is the tuple <<a, b, c>> (names hold no    *)
(* comma).  JS null is Null for objects, <<>> for an optional scalar      *)
(* (<<v>> when set) and "null" for an optional string.  A score, a double *)
(* in the code, is an exact fraction <<n, d>> in lowest terms; a wilson    *)
(* value is given in hundredths, which is the score out of 100.            *)
(***************************************************************************)
EXTENDS Integers, Sequences, FiniteSets, TLC

VARIABLES
    gameState,              \* reducer state: the DraftState or Null
    currentRoundInputs,     \* reducer state: [set1, set2, set3]
    selectedOptionIndex,    \* reducer state: <<>> (null) or <<index>>
    currentRecommendation,  \* reducer state: Null or the recommendation
    isLoading,              \* reducer state
    error,                  \* reducer state: "null" or a message
    gameComplete,           \* reducer state: <<>> (never set) or <<BOOLEAN>>
    availableHeroes,        \* reducer state
    availableSkills,        \* reducer state
    databaseLoaded,         \* reducer state
    cookie,                 \* the gameProgress cookie: Null or the saved data
    lastAction,             \* the last dispatch or handler call and its outcome
    call,                   \* a call of an exported function: arguments, result
    setupHeroes,            \* SetupForm state: heroes
    setupSkills,            \* SetupForm state: skills
    setupError,             \* SetupForm state: error, "null" or a message
    boardLoading,           \* GameBoard state: loading
    boardError,             \* GameBoard state: error, "null" or a message
    pending                 \* the awaited api.getRecommendation call, or Null

reducerVars == <<gameState, currentRoundInputs, selectedOptionIndex,
                 currentRecommendation, isLoading, error, gameComplete,
                 availableHeroes, availableSkills, databaseLoaded>>

vars == <<gameState, currentRoundInputs, selectedOptionIndex,
          currentRecommendation, isLoading, error, gameComplete,
          availableHeroes, availableSkills, databaseLoaded, cookie, lastAction,
          call, setupHeroes, setupSkills, setupError, boardLoading, boardError,
          pending>>

\* useState of SetupForm and of GameBoard, and GameBoard's awaited call.
componentVars == <<setupHeroes, setupSkills, setupError, boardLoading, boardError,
                   pending>>

\* What a dispatch to the reducer does not touch.
outsideProvider == <<call, componentVars>>

Null == [null |-> TRUE]

(***************************************************************************)
(* Bounds of the model.                                                    *)
(***************************************************************************)
\* RECORD_CHOICE is dispatched only while round_number is below this.
MaxRoundNumber == 10
\* Dispatches of RECORD_CHOICE, per draft, with a round type and a set size
\* other than the round's.
MaxOffScript == 1
\* The team is edited by dispatches up to this round.
MaxTeamEditRound == 2

(***************************************************************************)
(* services/gameLogic                                                      *)
(***************************************************************************)
createInitialGameState(heroes, skills) ==
    [current_heroes |-> heroes,
     current_skills |-> skills,
     round_number   |-> 1,
     round_history  |-> <<>>]

\* updateGameState with unshift in place of push.
updateGameState_unshift(gs, roundType, chosenSet, setIndex) ==
    [gs EXCEPT
        !.current_heroes = IF roundType = "hero" THEN chosenSet \o @ ELSE @,
        !.current_skills = IF roundType = "hero" THEN @ ELSE chosenSet \o @,
        !.round_history  = Append(@, [round_number |-> gs.round_number,
                                      round_type   |-> roundType,
                                      chosen_set   |-> chosenSet,
                                      set_index    |-> setIndex]),
        !.round_number   = @ + 1]

\* updateGameState with the history entry numbered after the round number is
\* advanced.
updateGameState_numberedAfter(gs, roundType, chosenSet, setIndex) ==
    [gs EXCEPT
        !.current_heroes = IF roundType = "hero" THEN @ \o chosenSet ELSE @,
        !.current_skills = IF roundType = "hero" THEN @ ELSE @ \o chosenSet,
        !.round_history  = Append(@, [round_number |-> gs.round_number + 1,
                                      round_type   |-> roundType,
                                      chosen_set   |-> chosenSet,
                                      set_index    |-> setIndex]),
        !.round_number   = @ + 1]

\* updateGameState comparing roundType with 'Hero': every set goes to the
\* skills.
updateGameState_typeMismatch(gs, roundType, chosenSet, setIndex) ==
    [gs EXCEPT
        !.current_skills = @ \o chosenSet,
        !.round_history  = Append(@, [round_number |-> gs.round_number,
                                      round_type   |-> roundType,
                                      chosen_set   |-> chosenSet,
                                      set_index    |-> setIndex]),
        !.round_number   = @ + 1]

\* The state part of updateGameState's result: {...gameState} with the three
\* lists copied, the chosen set pushed, the history entry pushed and the
\* round advanced.
updateGameState_gameState(gs, roundType, chosenSet, setIndex) ==
    [gs EXCEPT
        !.current_heroes = IF roundType = "hero" THEN @ \o chosenSet ELSE @,
        !.current_skills = IF roundType = "hero" THEN @ ELSE @ \o chosenSet,
        !.round_history  = Append(@, [round_number |-> gs.round_number,
                                      round_type   |-> roundType,
                                      chosen_set   |-> chosenSet,
                                      set_index    |-> setIndex]),
        !.round_number   = @ + 1]

\* gameComplete compared with > in place of >=.
updateGameState_gameComplete_late(gs) == gs.round_number > 8

\* gameComplete is computed from the round number before it is advanced.
updateGameState_gameComplete(gs) == gs.round_number >= 8

updateGameState(gs, roundType, chosenSet, setIndex) ==
    [gameState    |-> updateGameState_gameState(gs, roundType, chosenSet, setIndex),
     gameComplete |-> updateGameState_gameComplete(gs)]

getRoundType(roundNumber) ==
    IF roundNumber = 1 \/ roundNumber = 4 \/ roundNumber = 7
    THEN "hero" ELSE "skill"

\* getItemsPerSet with the two-hero rule also applied to round 8.
getItemsPerSet_lastRounds(roundNumber) ==
    IF roundNumber >= 7 THEN 2 ELSE 3

getItemsPerSet(roundNumber) ==
    IF roundNumber = 7 THEN 2
    ELSE IF roundNumber = 8 THEN 3
    ELSE 3

getRoundInfo(roundNumber) ==
    [roundType    |-> getRoundType(roundNumber),
     roundNumber  |-> roundNumber,
     cycleNumber  |-> IF roundNumber <= 3 THEN 1 ELSE IF roundNumber <= 6 THEN 2 ELSE 3,
     roundInCycle |-> IF roundNumber <= 3 THEN roundNumber
                      ELSE IF roundNumber <= 6 THEN roundNumber - 3
                      ELSE roundNumber - 6,
     itemsPerSet  |-> getItemsPerSet(roundNumber)]

\* validateGameInput without the check of the skills.
validateGameInput_heroesOnly(heroes, skills) ==
    IF Len(heroes) # 4 THEN [valid |-> FALSE, error |-> "Need exactly 4 heroes"]
    ELSE [valid |-> TRUE, error |-> "null"]

validateGameInput(heroes, skills) ==
    IF Len(heroes) # 4 THEN [valid |-> FALSE, error |-> "Need exactly 4 heroes"]
    ELSE IF Len(skills) # 4 THEN [valid |-> FALSE, error |-> "Need exactly 4 skills"]
    ELSE [valid |-> TRUE, error |-> "null"]

(***************************************************************************)
(* services/recommendationEngine (the revision that exports                *)
(* HERO_RECOMMEND_OPTIONS).  A statistics entry is [wins, losses, wilson], *)
(* wilson in hundredths (0..100) and possibly absent; a score is wilson    *)
(* * 100, i.e. the same integer on the 0..100 scale.  Averages and final   *)
(* scores are exact fractions <<numerator, denominator>> in lowest terms,  *)
(* where the code has IEEE doubles.  Weights are in tenths.                *)
(***************************************************************************)
HERO_RECOMMEND_OPTIONS ==
    [minGames                  |-> 2,
     weightSetCombination      |-> 5,
     weightFullTeamCombination |-> 3,
     weightPairStats           |-> 1,
     weightSkillHeroPairs      |-> 1]

SKILL_RECOMMEND_OPTIONS ==
    [minGames               |-> 2,
     weightIndividualSkills |-> 7,
     weightSkillHeroPairs   |-> 3]

RECURSIVE GCD(_, _)
GCD(a, b) == IF b = 0 THEN a ELSE GCD(b, a % b)

\* The fraction n / d (n >= 0, d > 0) in lowest terms.
Frac(n, d) == <<n \div GCD(n, d), d \div GCD(n, d)>>
Zero == Frac(0, 1)
Plus(a, b) == Frac(a[1] * b[2] + b[1] * a[2], a[2] * b[2])
Times(a, b) == Frac(a[1] * b[1], a[2] * b[2])
\* a > b
Greater(a, b) == a[1] * b[2] > b[1] * a[2]

\* stats.wilson ?? 0
WilsonOf(stats) == IF "wilson" \in DOMAIN stats THEN stats.wilson ELSE 0
TotalOf(stats) == stats.wins + stats.losses

RECURSIVE Insert(_, _)
Insert(x, sorted) ==
    IF sorted = <<>> THEN <<x>>
    ELSE IF x <= Head(sorted) THEN <<x>> \o sorted
    ELSE <<Head(sorted)>> \o Insert(x, Tail(sorted))

\* Array.prototype.sort() on a fresh array of names.
RECURSIVE Sorted(_)
Sorted(list) == IF list = <<>> THEN <<>> ELSE Insert(Head(list), Sorted(Tail(list)))

Includes(list, x) == \E i \in DOMAIN list : list[i] = x

RECURSIVE SumSeq(_)
SumSeq(list) == IF list = <<>> THEN 0 ELSE Head(list) + SumSeq(Tail(list))

NoData == [adjusted |-> 0, total |-> 0]

\* getHeroPairWinRate with the key joined in argument order.
getHeroPairWinRate_unsorted(h1, h2, heroPairStats) ==
    LET key == <<h1, h2>> IN
    IF key \notin DOMAIN heroPairStats THEN NoData
    ELSE IF TotalOf(heroPairStats[key]) <= 0 THEN NoData
    ELSE [adjusted |-> WilsonOf(heroPairStats[key]),
          total    |-> TotalOf(heroPairStats[key])]

getHeroPairWinRate(h1, h2, heroPairStats) ==
    LET key == Sorted(<<h1, h2>>) IN
    IF key \notin DOMAIN heroPairStats THEN NoData
    ELSE IF TotalOf(heroPairStats[key]) <= 0 THEN NoData
    ELSE [adjusted |-> WilsonOf(heroPairStats[key]),
          total    |-> TotalOf(heroPairStats[key])]

getSkillHeroPairWinRate(hero, skill, skillHeroPairStats) ==
    LET key == <<hero, skill>> IN
    IF key \notin DOMAIN skillHeroPairStats THEN NoData
    ELSE IF TotalOf(skillHeroPairStats[key]) <= 0 THEN NoData
    ELSE [adjusted |-> WilsonOf(skillHeroPairStats[key]),
          total    |-> TotalOf(skillHeroPairStats[key])]

\* The three nested loops i < j < k of generate3HeroCombinations: what the
\* loop over k pushes for one i and j, the loop over j from j on, the loop
\* over i from i on.
Gen3K(team, i, j) ==
    [d \in 1..(Len(team) - j) |-> Sorted(<<team[i], team[j], team[j + d]>>)]

RECURSIVE Gen3J(_, _, _)
Gen3J(team, i, j) ==
    IF j > Len(team) THEN <<>>
    ELSE Gen3K(team, i, j) \o Gen3J(team, i, j + 1)

RECURSIVE Gen3I(_, _)
Gen3I(team, i) ==
    IF i > Len(team) THEN <<>>
    ELSE Gen3J(team, i, i + 1) \o Gen3I(team, i + 1)

generate3HeroCombinations(team) ==
    IF Len(team) < 3 THEN <<>> ELSE Gen3I(team, 1)

\* The total of the scores, not divided by their count.
Average_total(details) ==
    IF details = <<>> THEN Zero
    ELSE Frac(SumSeq([i \in DOMAIN details |-> details[i].score]), 1)

\* total / count when count > 0, else the initial 0.0
Average(details) ==
    IF details = <<>> THEN Zero
    ELSE Frac(SumSeq([i \in DOMAIN details |-> details[i].score]), Len(details))

\* Score 1 with a member that has no entry averaged in as a zero.
IndividualDetails_absentAsZero(set, stats, minGames) ==
    LET eligible == SelectSeq(set, LAMBDA m :
                        m \in DOMAIN stats => TotalOf(stats[m]) >= minGames)
    IN [i \in DOMAIN eligible |->
           IF eligible[i] \in DOMAIN stats
           THEN [name   |-> eligible[i],
                 wins   |-> stats[eligible[i]].wins,
                 losses |-> stats[eligible[i]].losses,
                 total  |-> TotalOf(stats[eligible[i]]),
                 score  |-> WilsonOf(stats[eligible[i]])]
           ELSE [name |-> eligible[i], wins |-> 0, losses |-> 0, total |-> 0,
                 score |-> 0]]

\* Score 1 of a hero or skill set: the members with an entry of at least
\* minGames games, in set order.
IndividualDetails(set, stats, minGames) ==
    LET eligible == SelectSeq(set, LAMBDA m :
                        /\ m \in DOMAIN stats
                        /\ TotalOf(stats[m]) >= minGames)
    IN [i \in DOMAIN eligible |->
           [name   |-> eligible[i],
            wins   |-> stats[eligible[i]].wins,
            losses |-> stats[eligible[i]].losses,
            total  |-> TotalOf(stats[eligible[i]]),
            score  |-> WilsonOf(stats[eligible[i]])]]

\* Score 2: the combinations of [...currentTeam, ...heroSet] that hold a
\* member of currentTeam and a member of heroSet (by name), have an entry
\* and at least minGames games.
FullTeamDetails(heroSet, currentTeam, heroCombinations, minGames) ==
    LET combos == generate3HeroCombinations(currentTeam \o heroSet)
        eligible == SelectSeq(combos, LAMBDA combo :
                        /\ \E i \in 1..3 : Includes(currentTeam, combo[i])
                        /\ \E i \in 1..3 : Includes(heroSet, combo[i])
                        /\ combo \in DOMAIN heroCombinations
                        /\ TotalOf(heroCombinations[combo]) >= minGames)
    IN [i \in DOMAIN eligible |->
           [heroes |-> eligible[i],
            wins   |-> heroCombinations[eligible[i]].wins,
            losses |-> heroCombinations[eligible[i]].losses,
            total  |-> TotalOf(heroCombinations[eligible[i]]),
            score  |-> WilsonOf(heroCombinations[eligible[i]])]]

\* The pairs (outer[i], inner[j]) in the order of the two nested for loops.
RECURSIVE Cross(_, _)
Cross(outer, inner) ==
    IF outer = <<>> THEN <<>>
    ELSE [j \in DOMAIN inner |-> <<Head(outer), inner[j]>>] \o Cross(Tail(outer), inner)

\* Score 3 with every pair counted, one without data as a score of 0.
PairDetails_zeroForMissing(heroSet, currentTeam, heroPairStats, minGames) ==
    LET all == Cross(currentTeam, heroSet)
    IN [i \in DOMAIN all |->
           [hero1 |-> all[i][1],
            hero2 |-> all[i][2],
            total |-> getHeroPairWinRate(all[i][1], all[i][2], heroPairStats).total,
            score |-> IF getHeroPairWinRate(all[i][1], all[i][2], heroPairStats).total
                           >= minGames
                      THEN getHeroPairWinRate(all[i][1], all[i][2], heroPairStats).adjusted
                      ELSE 0]]

\* Score 3: for currentHero of currentTeam, for setHero of heroSet.
PairDetails(heroSet, currentTeam, heroPairStats, minGames) ==
    LET eligible == SelectSeq(Cross(currentTeam, heroSet), LAMBDA pr :
                        getHeroPairWinRate(pr[1], pr[2], heroPairStats).total >= minGames)
    IN [i \in DOMAIN eligible |->
           [hero1 |-> eligible[i][1],
            hero2 |-> eligible[i][2],
            total |-> getHeroPairWinRate(eligible[i][1], eligible[i][2], heroPairStats).total,
            score |-> getHeroPairWinRate(eligible[i][1], eligible[i][2], heroPairStats).adjusted]]

\* Score 4 of a hero set (skills outer, set heroes inner) and score 2 of a
\* skill set (heroes outer, set skills inner); pairs are <<hero, skill>>.
SkillHeroDetails(pairs, skillHeroPairStats, minGames) ==
    LET eligible == SelectSeq(pairs, LAMBDA pr :
                        getSkillHeroPairWinRate(pr[1], pr[2], skillHeroPairStats).total >= minGames)
    IN [i \in DOMAIN eligible |->
           [hero  |-> eligible[i][1],
            skill |-> eligible[i][2],
            total |-> getSkillHeroPairWinRate(eligible[i][1], eligible[i][2], skillHeroPairStats).total,
            score |-> getSkillHeroPairWinRate(eligible[i][1], eligible[i][2], skillHeroPairStats).adjusted]]

Swap(pairs) == [i \in DOMAIN pairs |-> <<pairs[i][2], pairs[i][1]>>]

\* The configured weights (in tenths) applied as they are.
NormalizedWeights_asConfigured(weights) ==
    [i \in DOMAIN weights |-> Frac(weights[i], 10)]

\* weights / weightSum, or equal weights when weightSum is not > 0.
NormalizedWeights(weights) ==
    IF SumSeq(weights) > 0
    THEN [i \in DOMAIN weights |-> Frac(weights[i], SumSeq(weights))]
    ELSE [i \in DOMAIN weights |-> Frac(1, Len(weights))]

RECURSIVE SumFrac(_)
SumFrac(list) == IF list = <<>> THEN Zero ELSE Plus(Head(list), SumFrac(Tail(list)))

\* The sum with the weights of the sub-scores of value 0 left out of the
\* normalization.
WeightedSum_reweighted(scores, weights) ==
    SumFrac([i \in DOMAIN scores |->
        Times(scores[i],
              NormalizedWeights([j \in DOMAIN weights |->
                  IF scores[j] = Zero THEN 0 ELSE weights[j]])[i])])

\* sum of scores[i] * normalizedWeights[i]
WeightedSum(scores, weights) ==
    SumFrac([i \in DOMAIN scores |-> Times(scores[i], NormalizedWeights(weights)[i])])

HeroWeights(options) ==
    <<options.weightSetCombination, options.weightFullTeamCombination,
      options.weightPairStats, options.weightSkillHeroPairs>>

\* One pass of the loop body of recommendHeroSet: the analysis of set i.
HeroSetAnalysis(i, heroSet, currentTeam, currentSkills, battleStats, options) ==
    LET ind   == IndividualDetails(heroSet, battleStats.hero_stats, options.minGames)
        full  == FullTeamDetails(heroSet, currentTeam, battleStats.hero_combinations,
                                 options.minGames)
        pairs == PairDetails(heroSet, currentTeam, battleStats.hero_pair_stats,
                             options.minGames)
        sh    == SkillHeroDetails(Swap(Cross(currentSkills, heroSet)),
                                  battleStats.skill_hero_pair_stats, options.minGames)
    IN [set_index |-> i,
        heroes    |-> heroSet,
        individual_scores |->
            [score   |-> Average(ind),
             details |-> IF ind = <<>> THEN Null
                         ELSE [heroes |-> heroSet, hero_details |-> ind]],
        score_full_team_combination |-> [score |-> Average(full), details |-> full],
        score_pair_stats            |-> [score |-> Average(pairs), details |-> pairs],
        score_skill_hero_pairs      |-> [score |-> Average(sh), details |-> sh],
        final_score |-> WeightedSum(<<Average(ind), Average(full), Average(pairs),
                                      Average(sh)>>, HeroWeights(options))]

\* The loop keeping only the analysis of the first set.
HeroRecommendations_firstOnly(availableSets, currentTeam, currentSkills, battleStats, options) ==
    [n \in DOMAIN availableSets \cap {1} |->
        HeroSetAnalysis(n - 1, availableSets[n], currentTeam, currentSkills,
                        battleStats, options)]

\* The recommendations array after the for loop over availableSets.
HeroRecommendations(availableSets, currentTeam, currentSkills, battleStats, options) ==
    [n \in DOMAIN availableSets |->
        HeroSetAnalysis(n - 1, availableSets[n], currentTeam, currentSkills,
                        battleStats, options)]

\* The reduce with >= in place of >.
RECURSIVE ReduceBest_lastMax(_, _)
ReduceBest_lastMax(best, rest) ==
    IF rest = <<>> THEN best
    ELSE ReduceBest_lastMax(IF ~Greater(best.final_score, Head(rest).final_score)
                            THEN Head(rest) ELSE best,
                            Tail(rest))

\* recommendations.reduce((best, current) =>
\*     current.final_score > best.final_score ? current : best)
RECURSIVE ReduceBest(_, _)
ReduceBest(best, rest) ==
    IF rest = <<>> THEN best
    ELSE ReduceBest(IF Greater(Head(rest).final_score, best.final_score)
                    THEN Head(rest) ELSE best,
                    Tail(rest))

\* bestRecommendation?.set_index ?? null
BestSetIndex(recommendations) ==
    IF recommendations = <<>> THEN <<>>
    ELSE <<ReduceBest(Head(recommendations), Tail(recommendations)).set_index>>

recommendHeroSetWith(availableSets, currentTeam, battleStats, currentSkills, options) ==
    LET recommendations ==
            HeroRecommendations(availableSets, currentTeam, currentSkills,
                                battleStats, options)
    IN [recommended_set |-> BestSetIndex(recommendations),
        analysis        |-> recommendations]

recommendHeroSet(availableSets, currentTeam, battleStats, currentSkills) ==
    recommendHeroSetWith(availableSets, currentTeam, battleStats, currentSkills,
                         HERO_RECOMMEND_OPTIONS)

SkillWeights(options) ==
    <<options.weightIndividualSkills, options.weightSkillHeroPairs>>

\* One pass of the loop body of recommendSkillSet.
SkillSetAnalysis(i, skillSet, currentHeroes, currentSkills, battleStats, options) ==
    LET ind == IndividualDetails(skillSet, battleStats.skill_stats, options.minGames)
        sh  == SkillHeroDetails(Cross(currentHeroes, skillSet),
                                battleStats.skill_hero_pair_stats, options.minGames)
    IN [set_index |-> i,
        skills    |-> skillSet,
        individual_scores |->
            [score   |-> Average(ind),
             details |-> IF ind = <<>> THEN Null
                         ELSE [skills |-> skillSet, skill_details |-> ind]],
        score_skill_hero_pairs |-> [score |-> Average(sh), details |-> sh],
        final_score |-> WeightedSum(<<Average(ind), Average(sh)>>,
                                    SkillWeights(options))]

SkillRecommendations(availableSets, currentHeroes, currentSkills, battleStats, options) ==
    [n \in DOMAIN availableSets |->
        SkillSetAnalysis(n - 1, availableSets[n], currentHeroes, currentSkills,
                         battleStats, options)]

recommendSkillSetWith(availableSets, currentHeroes, currentSkills, battleStats, options) ==
    LET recommendations ==
            SkillRecommendations(availableSets, currentHeroes, currentSkills,
                                 battleStats, options)
    IN [recommended_set |-> BestSetIndex(recommendations),
        analysis        |-> recommendations]

recommendSkillSet(availableSets, currentHeroes, currentSkills, battleStats) ==
    recommendSkillSetWith(availableSets, currentHeroes, currentSkills, battleStats,
                          SKILL_RECOMMEND_OPTIONS)

(***************************************************************************)
(* wilsonLowerBound of the earlier revisions of recommendationEngine.js.    *)
(* A JavaScript Number is an IEEE 754 double: every +, -, *, / and         *)
(* Math.sqrt gives the exact result rounded to the nearest value of 53     *)
(* significant bits, ties to even.  A natural number is a sequence of      *)
(* limbs in base 2^15, least significant first, without leading zero limb; *)
(* a double x >= 0 is [m, e] with x = m * 2^e and m of exactly 53 bits, or *)
(* m = 0.  The values of the function stay far from the subnormal and the  *)
(* infinite range.  Where an operator tests Len(v) of a value it is about  *)
(* to use, the test only fixes the order of evaluation.                    *)
(***************************************************************************)
LimbBase == 32768
LimbBits == 15
MantissaBits == 53

Limb(a, i) == IF i \in DOMAIN a THEN a[i] ELSE 0

RECURSIVE Trim(_)
Trim(a) == IF a # <<>> /\ a[Len(a)] = 0 THEN Trim(SubSeq(a, 1, Len(a) - 1)) ELSE a

NatOf(n) == Trim(<<n % LimbBase, (n \div LimbBase) % LimbBase,
                   n \div (LimbBase * LimbBase)>>)

NatLess(a, b) ==
    \/ Len(a) < Len(b)
    \/ /\ Len(a) = Len(b)
       /\ \E i \in DOMAIN a : a[i] < b[i] /\ \A j \in (i + 1)..Len(a) : a[j] = b[j]

\* The carry out of limb i of a + b.
RECURSIVE AddCarry(_, _, _)
AddCarry(a, b, i) ==
    IF i = 0 THEN 0 ELSE (Limb(a, i) + Limb(b, i) + AddCarry(a, b, i - 1)) \div LimbBase

NatAdd(a, b) ==
    LET n == (IF Len(a) > Len(b) THEN Len(a) ELSE Len(b)) + 1
    IN Trim([i \in 1..n |->
                (Limb(a, i) + Limb(b, i) + AddCarry(a, b, i - 1)) % LimbBase])

\* The borrow out of limb i of a - b.
RECURSIVE SubBorrow(_, _, _)
SubBorrow(a, b, i) ==
    IF i = 0 THEN 0
    ELSE IF Limb(a, i) - Limb(b, i) - SubBorrow(a, b, i - 1) < 0 THEN 1 ELSE 0

\* a - b for a >= b
NatSub(a, b) ==
    Trim([i \in 1..Len(a) |->
             (Limb(a, i) - Limb(b, i) - SubBorrow(a, b, i - 1) + LimbBase) % LimbBase])

\* The carry out of limb i of a * k, k a limb.
RECURSIVE MulCarry(_, _, _)
MulCarry(a, k, i) ==
    IF i = 0 THEN 0 ELSE (Limb(a, i) * k + MulCarry(a, k, i - 1)) \div LimbBase

NatMulLimb(a, k) ==
    Trim([i \in 1..(Len(a) + 1) |->
             (Limb(a, i) * k + MulCarry(a, k, i - 1)) % LimbBase])

ShiftLimbs(a, n) == IF a = <<>> THEN <<>> ELSE [i \in 1..n |-> 0] \o a

RECURSIVE NatMulFrom(_, _, _)
NatMulFrom(a, b, j) ==
    IF j > Len(b) THEN <<>>
    ELSE LET rest == NatMulFrom(a, b, j + 1)
         IN IF Len(rest) >= 0 THEN NatAdd(ShiftLimbs(NatMulLimb(a, b[j]), j - 1), rest)
            ELSE rest

NatMul(a, b) == NatMulFrom(a, b, 1)

\* a * 2^k
Shl(a, k) == ShiftLimbs(NatMulLimb(a, 2 ^ (k % LimbBits)), k \div LimbBits)

\* floor(a / 2^k)
Shr(a, k) ==
    LET drop == k \div LimbBits
        r    == k % LimbBits
    IN IF drop >= Len(a) THEN <<>>
       ELSE Trim([i \in 1..(Len(a) - drop) |->
                    (Limb(a, i + drop) \div 2 ^ r)
                    + (Limb(a, i + drop + 1) % 2 ^ r) * 2 ^ (LimbBits - r)])

BitLen(a) ==
    IF a = <<>> THEN 0
    ELSE LimbBits * (Len(a) - 1)
         + (CHOOSE n \in 1..LimbBits : 2 ^ (n - 1) <= a[Len(a)] /\ a[Len(a)] < 2 ^ n)

IsOdd(a) == a # <<>> /\ a[1] % 2 = 1

\* The limbs of a from limb i up: floor(a / LimbBase^(i - 1))
FromLimb(a, i) == IF i > Len(a) THEN <<>> ELSE SubSeq(a, i, Len(a))

\* Quotient and remainder of FromLimb(a, i) by d, by long division in base
\* LimbBase; the top limb of d is at least LimbBase / 2, so that the
\* quotient of the two top limbs of the remainder by the top limb of d is
\* the next limb of the quotient or exceeds it by 1 or by 2.
RECURSIVE LongDivision(_, _, _)
LongDivision(a, d, i) ==
    IF NatLess(FromLimb(a, i), d) THEN [q |-> <<>>, r |-> FromLimb(a, i)]
    ELSE LET above == LongDivision(a, d, i + 1)
             rem == Trim(<<a[i]>> \o above.r)
             top == (Limb(rem, Len(d) + 1) * LimbBase + Limb(rem, Len(d))) \div d[Len(d)]
             guess == IF top < LimbBase THEN top ELSE LimbBase - 1
             digit == CHOOSE g \in {guess - 2, guess - 1, guess} :
                         /\ g >= 0
                         /\ ~NatLess(rem, NatMulLimb(d, g))
                         /\ NatLess(rem, NatMulLimb(d, g + 1))
         IN IF Len(above.q) >= 0
            THEN [q |-> Trim(<<digit>> \o above.q), r |-> NatSub(rem, NatMulLimb(d, digit))]
            ELSE above

\* floor(a / d) for d > 0
NatDiv(a, d) ==
    LongDivision(Shl(a, LimbBits * Len(d) - BitLen(d)),
                 Shl(d, LimbBits * Len(d) - BitLen(d)), 1).q

\* floor(sqrt(a)) by Newton's iteration downwards from x >= sqrt(a)
RECURSIVE NewtonSqrt(_, _)
NewtonSqrt(a, x) ==
    LET next == Shr(NatAdd(x, NatDiv(a, x)), 1)
    IN IF NatLess(next, x) THEN NewtonSqrt(a, next) ELSE x

NatSqrt(a) == IF a = <<>> THEN <<>> ELSE NewtonSqrt(a, Shl(<<1>>, (BitLen(a) + 1) \div 2))

FZero == [m |-> <<>>, e |-> 0]

\* n * 2^e rounded to 53 bits, ties to even
FRound(n, e) ==
    LET len == BitLen(n)
        k == len - MantissaBits
        q == Shr(n, k)
        r == NatSub(n, Shl(q, k))
        half == Shl(<<1>>, k - 1)
        up == NatLess(half, r) \/ (r = half /\ IsOdd(q))
        rounded == IF up THEN NatAdd(q, <<1>>) ELSE q
    IN IF n = <<>> THEN FZero
       ELSE IF k <= 0 THEN [m |-> Shl(n, 0 - k), e |-> e + k]
       ELSE IF BitLen(rounded) > MantissaBits
            THEN [m |-> Shr(rounded, 1), e |-> e + k + 1]
            ELSE [m |-> rounded, e |-> e + k]

FOf(n) == FRound(NatOf(n), 0)

\* The mantissas of x and y on their common exponent.
Aligned(x, y) ==
    LET e == IF x.e < y.e THEN x.e ELSE y.e
    IN [x |-> Shl(x.m, x.e - e), y |-> Shl(y.m, y.e - e), e |-> e]

FLess(x, y) ==
    IF y.m = <<>> THEN FALSE
    ELSE IF x.m = <<>> THEN TRUE
    ELSE NatLess(Aligned(x, y).x, Aligned(x, y).y)

FAdd(x, y) ==
    IF x.m = <<>> THEN y
    ELSE IF y.m = <<>> THEN x
    ELSE FRound(NatAdd(Aligned(x, y).x, Aligned(x, y).y), Aligned(x, y).e)

\* x - y for x >= y
FSub(x, y) ==
    IF x.m = <<>> \/ y.m = <<>> THEN x
    ELSE FRound(NatSub(Aligned(x, y).x, Aligned(x, y).y), Aligned(x, y).e)

FMul(x, y) ==
    IF x.m = <<>> \/ y.m = <<>> THEN FZero
    ELSE FRound(NatMul(x.m, y.m), x.e + y.e)

\* x / y for y > 0: 58 or 59 bits of the quotient and a sticky bit
FDiv(x, y) ==
    LET n == Shl(x.m, 58)
        q == NatDiv(n, y.m)
        sticky == IF NatMul(q, y.m) = n THEN <<>> ELSE <<1>>
    IN IF x.m = <<>> \/ Len(q) = 0 THEN FZero
       ELSE FRound(NatAdd(Shl(q, 1), sticky), x.e - y.e - 59)

\* Math.sqrt(x): the root of the mantissa on an even exponent, with 60 or
\* more bits and a sticky bit
FSqrt(x) ==
    LET s == 68 + (x.e % 2)
        n == Shl(x.m, s)
        root == NatSqrt(n)
        sticky == IF NatMul(root, root) = n THEN <<>> ELSE <<1>>
    IN IF x.m = <<>> \/ Len(root) = 0 THEN FZero
       ELSE FRound(NatAdd(Shl(root, 1), sticky), ((x.e - s) \div 2) - 1)

\* The literal 1.96
Z196 == FDiv(FOf(196), FOf(100))

\* 0 / 0, and every operation on it
NaN == [m |-> <<>>, e |-> 0, nan |-> TRUE]

\* wilsonLowerBound without the return for total === 0: phat is 0 / 0.
wilsonLowerBound_unguarded(wins, total) ==
    LET z == Z196
        phat == FDiv(FOf(wins), FOf(total))
        denom == FAdd(FOf(1), FDiv(FMul(z, z), FOf(total)))
        centre == FAdd(phat, FDiv(FMul(z, z), FMul(FOf(2), FOf(total))))
        margin == FMul(z, FSqrt(FDiv(FAdd(FMul(phat, FSub(FOf(1), phat)),
                                          FDiv(FMul(z, z),
                                               FMul(FOf(4), FOf(total)))),
                                     FOf(total))))
    IN IF total = 0 THEN NaN
       ELSE IF FLess(centre, margin) THEN FZero
       ELSE FDiv(FSub(centre, margin), denom)

wilsonLowerBound(wins, total) ==
    LET z == Z196
        phat == FDiv(FOf(wins), FOf(total))
        denom == FAdd(FOf(1), FDiv(FMul(z, z), FOf(total)))
        centre == FAdd(phat, FDiv(FMul(z, z), FMul(FOf(2), FOf(total))))
        margin == FMul(z, FSqrt(FDiv(FAdd(FMul(phat, FSub(FOf(1), phat)),
                                          FDiv(FMul(z, z),
                                               FMul(FOf(4), FOf(total)))),
                                     FOf(total))))
    IN IF total = 0 THEN FZero
       ELSE IF FLess(centre, margin) THEN FZero
       ELSE FDiv(FSub(centre, margin), denom)

(***************************************************************************)
(* The empirical-Bayes shrinkage estimator of section 4.1 of the           *)
(* specification.  The revisions of recommendationEngine.js at hand have   *)
(* the lower bound and the lookups of the exported rate only; this         *)
(* estimator follows the specification's formula, in exact fractions.      *)
(***************************************************************************)
\* totalWins / totalGames across a statistics map, 0.5 for a map without
\* games.
GlobalPrior(statsMap) ==
    LET RECURSIVE Wins(_), Games(_)
        Wins(keys) == IF keys = {} THEN 0
                      ELSE LET k == CHOOSE x \in keys : TRUE
                           IN statsMap[k].wins + Wins(keys \ {k})
        Games(keys) == IF keys = {} THEN 0
                       ELSE LET k == CHOOSE x \in keys : TRUE
                            IN TotalOf(statsMap[k]) + Games(keys \ {k})
    IN IF Games(DOMAIN statsMap) = 0 THEN Frac(1, 2)
       ELSE Frac(Wins(DOMAIN statsMap), Games(DOMAIN statsMap))

\* (priorWeight * prior + total * observedRate) / (priorWeight + total); the
\* prior itself when total is 0.
shrinkageEstimate(wins, total, statsMap, priorWeight) ==
    LET prior == GlobalPrior(statsMap)
        observedRate == Frac(wins, total)
    IN IF total = 0 THEN prior
       ELSE Times(Plus(Times(Frac(priorWeight, 1), prior),
                       Times(Frac(total, 1), observedRate)),
                  Frac(1, priorWeight + total))

\* The call sorting the candidate sets and the team in place to build keys.
ArgumentsAfterCall_sortInPlace(availableSets, currentHeroes, currentSkills, battleStats) ==
    [availableSets |-> [n \in DOMAIN availableSets |-> Sorted(availableSets[n])],
     currentHeroes |-> Sorted(currentHeroes),
     currentSkills |-> currentSkills,
     battleStats   |-> battleStats]

\* The argument objects as a call of recommendHeroSet or recommendSkillSet
\* leaves them.  Every sort() is on a fresh array ([a, b].sort(), [team[i],
\* team[j], team[k]].sort()), fullTeam is a spread copy, every push() is on
\* an array the call created, and no element or field of an argument is
\* assigned.
ArgumentsAfterCall(availableSets, currentHeroes, currentSkills, battleStats) ==
    [availableSets |-> availableSets,
     currentHeroes |-> currentHeroes,
     currentSkills |-> currentSkills,
     battleStats   |-> battleStats]

(***************************************************************************)
(* services/api (client-side): getRecommendation formats the engine's      *)
(* result.  The hero_details / top_* lists, display extracts of the        *)
(* details, are left out.                                                  *)
(***************************************************************************)
\* Math.round(x * 10) / 10, in tenths.
RoundTenths(x) == (20 * x[1] + x[2]) \div (2 * x[2])

FormatAnalysis(roundType, analysis, i) ==
    IF roundType = "hero"
    THEN [set_index   |-> analysis.set_index,
          items       |-> analysis.heroes,
          final_score |-> RoundTenths(analysis.final_score),
          rank        |-> i + 1,
          individual_scores |-> RoundTenths(analysis.individual_scores.score),
          score_full_team_combination |->
              RoundTenths(analysis.score_full_team_combination.score),
          score_pair_stats |-> RoundTenths(analysis.score_pair_stats.score),
          score_skill_hero_pairs |-> RoundTenths(analysis.score_skill_hero_pairs.score)]
    ELSE [set_index   |-> analysis.set_index,
          items       |-> analysis.skills,
          final_score |-> RoundTenths(analysis.final_score),
          rank        |-> i + 1,
          individual_scores |-> RoundTenths(analysis.individual_scores.score),
          score_skill_hero_pairs |-> RoundTenths(analysis.score_skill_hero_pairs.score)]

\* formattedRec; availableSets[null] is undefined, here <<>>.
FormatRecommendation(roundType, availableSets, recommendation) ==
    [recommended_set_index |-> recommendation.recommended_set,
     recommended_set |->
         IF recommendation.recommended_set = <<>> THEN <<>>
         ELSE <<availableSets[recommendation.recommended_set[1] + 1]>>,
     analysis |-> [n \in DOMAIN recommendation.analysis |->
                      FormatAnalysis(roundType, recommendation.analysis[n], n - 1)]]

\* api.getRecommendation(roundType, availableSets, gameState).recommendation
getRecommendation(roundType, availableSets, gs, battleStats) ==
    FormatRecommendation(roundType, availableSets,
        IF roundType = "hero"
        THEN recommendHeroSet(availableSets, gs.current_heroes, battleStats,
                              gs.current_skills)
        ELSE recommendSkillSet(availableSets, gs.current_heroes, gs.current_skills,
                               battleStats))

(***************************************************************************)
(* context/GameContext: initialState and the cases of gameReducer          *)
(***************************************************************************)
EmptyRoundInputs == [set1 |-> <<>>, set2 |-> <<>>, set3 |-> <<>>]

InitReducer ==
    /\ gameState = Null
    /\ currentRoundInputs = EmptyRoundInputs
    /\ selectedOptionIndex = <<>>
    /\ currentRecommendation = Null
    /\ isLoading = FALSE
    /\ error = "null"
    /\ gameComplete = <<>>
    /\ availableHeroes = <<>>
    /\ availableSkills = <<>>
    /\ databaseLoaded = FALSE

START_GAME(heroes, skills) ==
    /\ gameState' = createInitialGameState(heroes, skills)
    /\ currentRoundInputs' = EmptyRoundInputs
    /\ selectedOptionIndex' = <<>>
    /\ currentRecommendation' = Null
    /\ error' = "null"
    /\ UNCHANGED <<isLoading, gameComplete, availableHeroes, availableSkills,
                   databaseLoaded>>

\* A gameState with all four fields of a DraftState.
IsDraft(gs) == gs # Null /\ "round_history" \in DOMAIN gs

\* updateGameState spreads gameState.current_heroes and .round_history: with
\* gameState null, or without a round_history, the reducer throws and no
\* state is produced.
RECORD_CHOICE(roundType, chosenSet, setIndex) ==
    /\ IsDraft(gameState)
    /\ gameState' = updateGameState(gameState, roundType, chosenSet, setIndex).gameState
    /\ currentRoundInputs' = EmptyRoundInputs
    /\ selectedOptionIndex' = <<>>
    /\ currentRecommendation' = Null
    /\ gameComplete' = <<updateGameState(gameState, roundType, chosenSet, setIndex).gameComplete>>
    /\ UNCHANGED <<isLoading, error, availableHeroes, availableSkills,
                   databaseLoaded>>

RESTORE_PROGRESS(payload) ==
    /\ gameState' = payload.gameState
    /\ currentRoundInputs' = payload.currentRoundInputs
    /\ UNCHANGED <<selectedOptionIndex, currentRecommendation, isLoading, error,
                   gameComplete, availableHeroes, availableSkills, databaseLoaded>>

UPDATE_ROUND_INPUT(setName, items) ==
    /\ currentRoundInputs' = [currentRoundInputs EXCEPT ![setName] = items]
    /\ UNCHANGED <<gameState, selectedOptionIndex, currentRecommendation,
                   isLoading, error, gameComplete, availableHeroes,
                   availableSkills, databaseLoaded>>

SET_RECOMMENDATION(recommendation) ==
    /\ currentRecommendation' = recommendation
    /\ selectedOptionIndex' = <<>>
    /\ isLoading' = FALSE
    /\ error' = "null"
    /\ UNCHANGED <<gameState, currentRoundInputs, gameComplete, availableHeroes,
                   availableSkills, databaseLoaded>>

SELECT_OPTION(index) ==
    /\ selectedOptionIndex' = <<index>>
    /\ UNCHANGED <<gameState, currentRoundInputs, currentRecommendation,
                   isLoading, error, gameComplete, availableHeroes,
                   availableSkills, databaseLoaded>>

NEXT_ROUND ==
    /\ currentRoundInputs' = EmptyRoundInputs
    /\ selectedOptionIndex' = <<>>
    /\ currentRecommendation' = Null
    /\ UNCHANGED <<gameState, isLoading, error, gameComplete, availableHeroes,
                   availableSkills, databaseLoaded>>

\* RESET_GAME returning initialState itself.
RESET_GAME_initialState ==
    /\ gameState' = Null
    /\ currentRoundInputs' = EmptyRoundInputs
    /\ selectedOptionIndex' = <<>>
    /\ currentRecommendation' = Null
    /\ isLoading' = FALSE
    /\ error' = "null"
    /\ gameComplete' = <<>>
    /\ availableHeroes' = <<>>
    /\ availableSkills' = <<>>
    /\ databaseLoaded' = FALSE

\* {...initialState, availableHeroes, availableSkills, databaseLoaded}: the
\* result has no gameComplete.  The call of storage.clearGameProgress() is in
\* DispatchResetGame.
RESET_GAME ==
    /\ gameState' = Null
    /\ currentRoundInputs' = EmptyRoundInputs
    /\ selectedOptionIndex' = <<>>
    /\ currentRecommendation' = Null
    /\ isLoading' = FALSE
    /\ error' = "null"
    /\ gameComplete' = <<>>
    /\ UNCHANGED <<availableHeroes, availableSkills, databaseLoaded>>

SET_LOADING(loading) ==
    /\ isLoading' = loading
    /\ UNCHANGED <<gameState, currentRoundInputs, selectedOptionIndex,
                   currentRecommendation, error, gameComplete, availableHeroes,
                   availableSkills, databaseLoaded>>

SET_ERROR(message) ==
    /\ error' = message
    /\ isLoading' = FALSE
    /\ UNCHANGED <<gameState, currentRoundInputs, selectedOptionIndex,
                   currentRecommendation, gameComplete, availableHeroes,
                   availableSkills, databaseLoaded>>

LOAD_DATABASE(heroes, skills) ==
    /\ availableHeroes' = heroes
    /\ availableSkills' = skills
    /\ databaseLoaded' = TRUE
    /\ UNCHANGED <<gameState, currentRoundInputs, selectedOptionIndex,
                   currentRecommendation, isLoading, error, gameComplete>>

\* UPDATE_TEAM without the spread of state.gameState.
UPDATE_TEAM_gameState_unspread(gs, heroes, skills) ==
    [current_heroes |-> heroes, current_skills |-> skills]

\* {...state.gameState, current_heroes, current_skills}: spreading null gives
\* an object with these two fields only.
UPDATE_TEAM_gameState(gs, heroes, skills) ==
    IF gs = Null
    THEN [current_heroes |-> heroes, current_skills |-> skills]
    ELSE [gs EXCEPT !.current_heroes = heroes, !.current_skills = skills]

UPDATE_TEAM(heroes, skills) ==
    /\ gameState' = UPDATE_TEAM_gameState(gameState, heroes, skills)
    /\ UNCHANGED <<currentRoundInputs, selectedOptionIndex, currentRecommendation,
                   isLoading, error, gameComplete, availableHeroes,
                   availableSkills, databaseLoaded>>

ADD_TEAM_MEMBER_gameState(gs, memberType, member) ==
    IF memberType = "hero"
    THEN [gs EXCEPT !.current_heroes = Append(@, member)]
    ELSE [gs EXCEPT !.current_skills = Append(@, member)]

\* With gameState null, [...undefined] throws.
ADD_TEAM_MEMBER(memberType, member) ==
    /\ gameState # Null
    /\ gameState' = ADD_TEAM_MEMBER_gameState(gameState, memberType, member)
    /\ UNCHANGED <<currentRoundInputs, selectedOptionIndex, currentRecommendation,
                   isLoading, error, gameComplete, availableHeroes,
                   availableSkills, databaseLoaded>>

\* Array.prototype.filter(x => x !== member)
Without(list, member) == SelectSeq(list, LAMBDA x : x # member)

REMOVE_TEAM_MEMBER_gameState(gs, memberType, member) ==
    IF memberType = "hero"
    THEN [gs EXCEPT !.current_heroes = Without(@, member)]
    ELSE [gs EXCEPT !.current_skills = Without(@, member)]

\* With gameState null, undefined.filter throws.
REMOVE_TEAM_MEMBER(memberType, member) ==
    /\ gameState # Null
    /\ gameState' = REMOVE_TEAM_MEMBER_gameState(gameState, memberType, member)
    /\ UNCHANGED <<currentRoundInputs, selectedOptionIndex, currentRecommendation,
                   isLoading, error, gameComplete, availableHeroes,
                   availableSkills, databaseLoaded>>

\* An action type the switch does not list: the default case returns state.
UnhandledAction == UNCHANGED reducerVars

(***************************************************************************)
(* utils/storage and the effects of GameProvider                           *)
(***************************************************************************)
\* JSON.parse(JSON.stringify({gameState, currentRoundInputs})): objects of
\* arrays, strings and numbers come back field by field.
saveGameProgress(gs, inputs) == [gameState |-> gs, currentRoundInputs |-> inputs]

\* The auto-save effect with state.gameState as its only dependency.
AutoSave_gameStateOnly(newObjects) ==
    cookie' = IF newObjects /\ gameState' # gameState /\ gameState' # Null
              THEN saveGameProgress(gameState', currentRoundInputs')
              ELSE cookie

\* The auto-save effect: it runs after a dispatch that produced a new
\* gameState or currentRoundInputs object, and saves if gameState is set.
AutoSave(newObjects) ==
    cookie' = IF newObjects /\ gameState' # Null
              THEN saveGameProgress(gameState', currentRoundInputs')
              ELSE cookie

(***************************************************************************)
(* Inputs of the dispatches.                                               *)
(***************************************************************************)
SeedHeroChoices == {<<1, 2, 3, 4>>, <<1, 2, 3>>}
SeedSkillChoices == {<<1, 2, 3, 4>>}
SetNames == {"set1", "set2", "set3"}
SetIndices == {0, 1, 2}
\* `set${index + 1}`
SetNameOf(index) == IF index = 0 THEN "set1" ELSE IF index = 1 THEN "set2" ELSE "set3"

\* The set offered at position index: <<5, 6, 7>>, <<8, 9, 10>>,
\* <<11, 12, 13>>, cut to size items.
Offer(index, size) == [i \in 1..size |-> 4 + 3 * index + i]

OtherType(roundType) == IF roundType = "hero" THEN "skill" ELSE "hero"

\* What GameBoard dispatches in round r: the round's type and the first
\* offered set of the round's size.
OnScript(r) ==
    [roundType |-> getRoundType(r),
     chosenSet |-> Offer(0, getItemsPerSet(r)),
     setIndex  |-> 0]

\* A payload GameBoard would not dispatch in round r: the other type, a set
\* of the other size, the last index.
OffScript(r) ==
    [roundType |-> OtherType(getRoundType(r)),
     chosenSet |-> Offer(2, IF getItemsPerSet(r) = 3 THEN 2 ELSE 3),
     setIndex  |-> 2]

OffScriptCount(gs) ==
    Cardinality({i \in DOMAIN gs.round_history :
                    gs.round_history[i].round_type
                        # getRoundType(gs.round_history[i].round_number)})

RecordChoicePayloads(gs) ==
    {OnScript(gs.round_number)} \cup
    (IF OffScriptCount(gs) < MaxOffScript THEN {OffScript(gs.round_number)} ELSE {})

(***************************************************************************)
(* SpecReducer: GameProvider with any component dispatching any action.    *)
(***************************************************************************)
DispatchStartGame ==
    \E heroes \in SeedHeroChoices, skills \in SeedSkillChoices :
        /\ START_GAME(heroes, skills)
        /\ AutoSave(TRUE)
        /\ lastAction' = [type |-> "START_GAME", heroes |-> heroes, skills |-> skills]
        /\ UNCHANGED outsideProvider

DispatchRecordChoice ==
    /\ IsDraft(gameState)
    /\ gameState.round_number < MaxRoundNumber
    /\ \E p \in RecordChoicePayloads(gameState) :
        /\ RECORD_CHOICE(p.roundType, p.chosenSet, p.setIndex)
        /\ AutoSave(TRUE)
        /\ lastAction' = [type |-> "RECORD_CHOICE", roundType |-> p.roundType,
                          chosenSet |-> p.chosenSet, setIndex |-> p.setIndex]
        /\ UNCHANGED outsideProvider

DispatchResetGame ==
    /\ RESET_GAME
    /\ cookie' = Null
    /\ lastAction' = [type |-> "RESET_GAME"]
    /\ UNCHANGED outsideProvider

\* The option set entered first, the recommendation and the selection
\* dispatched by any component at any time.
DispatchUpdateRoundInput ==
    \E setName \in {"set1"}, items \in {Offer(0, 3)} :
        /\ UPDATE_ROUND_INPUT(setName, items)
        /\ AutoSave(TRUE)
        /\ lastAction' = [type |-> "UPDATE_ROUND_INPUT"]
        /\ UNCHANGED outsideProvider

DispatchSetRecommendation ==
    \E recommendation \in {[recommended_set_index |-> <<0>>,
                             recommended_set |-> <<Offer(0, 3)>>,
                             analysis |-> <<>>]} :
        /\ SET_RECOMMENDATION(recommendation)
        /\ AutoSave(FALSE)
        /\ lastAction' = [type |-> "SET_RECOMMENDATION"]
        /\ UNCHANGED outsideProvider

DispatchSelectOption ==
    \E index \in {0} :
        /\ SELECT_OPTION(index)
        /\ AutoSave(FALSE)
        /\ lastAction' = [type |-> "SELECT_OPTION"]
        /\ UNCHANGED outsideProvider

\* The team is edited before a game is started and in the rounds up to
\* MaxTeamEditRound.
TeamEditable ==
    IsDraft(gameState) => gameState.round_number <= MaxTeamEditRound

\* The team dialog's result, dispatched by any component: the seeds when no
\* game is started, the team without the first seed hero otherwise.
DispatchUpdateTeam ==
    /\ TeamEditable
    /\ \E heroes \in IF gameState = Null THEN SeedHeroChoices
                      ELSE {Without(gameState.current_heroes, 1)},
          skills \in IF gameState = Null THEN SeedSkillChoices
                      ELSE {gameState.current_skills} :
           /\ UPDATE_TEAM(heroes, skills)
           /\ AutoSave(TRUE)
           /\ lastAction' = [type |-> "UPDATE_TEAM", heroes |-> heroes,
                             skills |-> skills]
           /\ UNCHANGED outsideProvider

\* Item 13 is added to a team that does not have it.
DispatchAddTeamMember ==
    \E memberType \in {"hero", "skill"}, member \in {13} :
        /\ gameState # Null
        /\ TeamEditable
        /\ ~Includes(IF memberType = "hero" THEN gameState.current_heroes
                      ELSE gameState.current_skills, member)
        /\ ADD_TEAM_MEMBER(memberType, member)
        /\ AutoSave(TRUE)
        /\ lastAction' = [type |-> "ADD_TEAM_MEMBER", memberType |-> memberType,
                          member |-> member]
        /\ UNCHANGED outsideProvider

\* Item 13 or the second seed is removed, present or not.
DispatchRemoveTeamMember ==
    \E memberType \in {"hero", "skill"}, member \in {2, 13} :
        /\ gameState # Null
        /\ TeamEditable
        /\ REMOVE_TEAM_MEMBER(memberType, member)
        /\ AutoSave(TRUE)
        /\ lastAction' = [type |-> "REMOVE_TEAM_MEMBER", memberType |-> memberType,
                          member |-> member]
        /\ UNCHANGED outsideProvider

NoCall == [fn |-> "none"]

\* useState([]), useState(null), useState(false) of the two components.
InitComponents ==
    /\ setupHeroes = <<>>
    /\ setupSkills = <<>>
    /\ setupError = "null"
    /\ boardLoading = FALSE
    /\ boardError = "null"
    /\ pending = Null

InitSession ==
    /\ InitReducer
    /\ InitComponents
    /\ cookie = Null
    /\ lastAction = [type |-> "init"]
    /\ call = NoCall

NextReducer ==
    \/ DispatchStartGame
    \/ DispatchRecordChoice
    \/ DispatchResetGame
    \/ DispatchUpdateTeam
    \/ DispatchAddTeamMember
    \/ DispatchRemoveTeamMember
    \/ DispatchUpdateRoundInput
    \/ DispatchSetRecommendation
    \/ DispatchSelectOption

SpecReducer == InitSession /\ [][NextReducer]_vars

(***************************************************************************)
(* SpecDraft: a session in which drafts are started, advanced by           *)
(* RECORD_CHOICE and reset, with no other dispatch.                        *)
(***************************************************************************)
NextDraft ==
    \/ DispatchStartGame
    \/ DispatchRecordChoice
    \/ DispatchResetGame

SpecDraft == InitSession /\ [][NextDraft]_vars

(***************************************************************************)
(* SpecCalls: one call of an exported function on arguments drawn from     *)
(* bounded sets.                                                           *)
(***************************************************************************)
Entry(wins, losses, wilson) == [wins |-> wins, losses |-> losses, wilson |-> wilson]
\* An entry the export wrote no wilson field for.
EntryNoWilson(wins, losses) == [wins |-> wins, losses |-> losses]

\* The map with these keys (a set of <<key, entry>>).
MapOf(pairs) ==
    [k \in {pr[1] : pr \in pairs} |-> (CHOOSE pr \in pairs : pr[1] = k)[2]]

\* Per-item statistics, heroes or skills alike: none; a good and a bad item;
\* two equal items and one of a single game; an item below minGames and an
\* entry without wilson; items of all three candidate sets; the extreme
\* rates 0 (an item that never won) and 1.
ItemStatsChoices ==
    <<MapOf({}),
      MapOf({<<5, Entry(8, 2, 49)>>, <<8, Entry(1, 9, 1)>>}),
      MapOf({<<5, Entry(8, 2, 49)>>, <<8, Entry(8, 2, 49)>>, <<9, Entry(1, 0, 21)>>}),
      MapOf({<<5, Entry(1, 0, 21)>>, <<8, EntryNoWilson(3, 3)>>}),
      MapOf({<<6, Entry(2, 4, 10)>>, <<7, Entry(5, 5, 24)>>, <<8, Entry(1, 9, 1)>>,
             <<10, Entry(30, 10, 60)>>}),
      MapOf({<<5, Entry(40, 0, 91)>>, <<6, Entry(0, 4, 0)>>, <<7, Entry(50, 0, 100)>>,
             <<8, Entry(20, 0, 84)>>})>>

HeroPairStatsChoices ==
    <<MapOf({}),
      MapOf({<<<<1, 5>>, Entry(2, 0, 34)>>, <<<<8, 9>>, Entry(5, 5, 24)>>,
             <<<<1, 8>>, Entry(1, 0, 21)>>})>>

\* <<5, 6, 7>> is a combination within a candidate set, <<1, 2, 3>> one
\* within the current team, <<1, 2, 6>> one of a single game.
HeroCombinationsChoices ==
    <<MapOf({}),
      MapOf({<<<<1, 2, 5>>, Entry(3, 0, 44)>>, <<<<1, 8, 9>>, Entry(4, 1, 38)>>,
             <<<<5, 6, 7>>, Entry(9, 0, 70)>>, <<<<1, 2, 3>>, Entry(9, 0, 70)>>,
             <<<<1, 8, 10>>, Entry(6, 0, 61)>>, <<<<1, 2, 6>>, Entry(1, 0, 21)>>})>>

\* Keys are <<hero, skill>>.
SkillHeroPairStatsChoices ==
    <<MapOf({}),
      MapOf({<<<<5, 1>>, Entry(2, 2, 15)>>, <<<<8, 4>>, Entry(6, 0, 61)>>,
             <<<<1, 5>>, Entry(3, 1, 30)>>, <<<<2, 8>>, Entry(1, 0, 21)>>})>>

\* Keys are sorted pairs of skills: <<4, 5>> and <<4, 8>> pair a current
\* skill with a candidate skill, <<5, 6>> two skills of one candidate set.
SkillPairStatsChoices ==
    <<MapOf({}),
      MapOf({<<<<4, 5>>, Entry(6, 0, 61)>>, <<<<5, 6>>, Entry(5, 5, 24)>>,
             <<<<4, 8>>, Entry(9, 1, 60)>>})>>

\* battleStats with the maps number hs, hp, hc, sh of the choices above.
HeroBattleStats(hs, hp, hc, sh) ==
    [hero_stats |-> ItemStatsChoices[hs], skill_stats |-> MapOf({}),
     hero_pair_stats |-> HeroPairStatsChoices[hp],
     hero_combinations |-> HeroCombinationsChoices[hc],
     skill_pair_stats |-> MapOf({}),
     skill_hero_pair_stats |-> SkillHeroPairStatsChoices[sh]]

SkillBattleStats(ss, sh, sp) ==
    [hero_stats |-> MapOf({}), skill_stats |-> ItemStatsChoices[ss],
     hero_pair_stats |-> MapOf({}), hero_combinations |-> MapOf({}),
     skill_pair_stats |-> SkillPairStatsChoices[sp],
     skill_hero_pair_stats |-> SkillHeroPairStatsChoices[sh]]

\* No data at all; individual data only; all four kinds of data; pairs
\* with thin individual data; combinations and skill pairs; synergy data
\* without individual data; all four kinds with extreme individual rates.
HeroBattleStatsChoices ==
    {HeroBattleStats(1, 1, 1, 1), HeroBattleStats(2, 1, 1, 1),
     HeroBattleStats(3, 2, 2, 2), HeroBattleStats(4, 2, 1, 1),
     HeroBattleStats(5, 1, 2, 2), HeroBattleStats(1, 2, 2, 2),
     HeroBattleStats(6, 2, 2, 2)}

SkillBattleStatsChoices ==
    {SkillBattleStats(1, 1, 1), SkillBattleStats(2, 1, 1), SkillBattleStats(3, 2, 1),
     SkillBattleStats(4, 2, 1), SkillBattleStats(5, 2, 1), SkillBattleStats(1, 2, 1),
     SkillBattleStats(6, 2, 1), SkillBattleStats(1, 1, 2), SkillBattleStats(3, 2, 2)}

\* The sets a round can offer: two of three and one of two.
SetPool == {<<5, 6, 7>>, <<8, 9, 10>>, <<6, 5>>}
\* The most candidate sets passed in one call.
MaxSets == 4
\* The longest team passed to generate3HeroCombinations on its own.
MaxPool == 5
\* The most games (wins + losses) passed to wilsonLowerBound.
MaxGames == 12

RECURSIVE SeqsUpTo(_, _)
SeqsUpTo(S, n) ==
    IF n = 0 THEN {<<>>}
    ELSE SeqsUpTo(S, n - 1) \cup
         {Append(q, x) : q \in {r \in SeqsUpTo(S, n - 1) : Len(r) = n - 1}, x \in S}

\* Current team and skills of the caller; in the second the hero 9 is also
\* in the candidate set <<8, 9, 10>>.
TeamChoices ==
    {[heroes |-> <<1, 2, 3, 4>>, skills |-> <<1, 2, 3, 4>>],
     [heroes |-> <<9, 1>>, skills |-> <<4>>]}

HeroCalls ==
    {[fn |-> "recommendHeroSet", done |-> FALSE, result |-> Null,
      args |-> [availableSets |-> sets, currentHeroes |-> team.heroes,
                currentSkills |-> team.skills, battleStats |-> stats],
      input |-> [availableSets |-> sets, currentHeroes |-> team.heroes,
                 currentSkills |-> team.skills, battleStats |-> stats]] :
        sets \in SeqsUpTo(SetPool, MaxSets), team \in TeamChoices,
        stats \in HeroBattleStatsChoices}

SkillCalls ==
    {[fn |-> "recommendSkillSet", done |-> FALSE, result |-> Null,
      args |-> [availableSets |-> sets, currentHeroes |-> team.heroes,
                currentSkills |-> team.skills, battleStats |-> stats],
      input |-> [availableSets |-> sets, currentHeroes |-> team.heroes,
                 currentSkills |-> team.skills, battleStats |-> stats]] :
        sets \in SeqsUpTo(SetPool, MaxSets), team \in TeamChoices,
        stats \in SkillBattleStatsChoices}

RoundInfoCalls ==
    {[fn |-> "getRoundInfo", done |-> FALSE, result |-> Null,
      args |-> [roundNumber |-> r], input |-> [roundNumber |-> r]] :
        r \in 1..MaxRoundNumber}

\* Teams of up to MaxPool heroes out of four, in any order, a hero more
\* than once included.
CombinationCalls ==
    {[fn |-> "generate3HeroCombinations", done |-> FALSE, result |-> Null,
      args |-> [team |-> team], input |-> [team |-> team]] :
        team \in SeqsUpTo(1..4, MaxPool)}

\* Lookups of a pair of heroes, in both orders and of a hero with itself,
\* in an empty map, in the map above and in a map with an entry of no games.
PairCalls ==
    {[fn |-> "getHeroPairWinRate", done |-> FALSE, result |-> Null,
      args |-> [h1 |-> h1, h2 |-> h2, heroPairStats |-> stats],
      input |-> [h1 |-> h1, h2 |-> h2, heroPairStats |-> stats]] :
        h1 \in {1, 5, 8, 9}, h2 \in {1, 5, 8, 9},
        stats \in {HeroPairStatsChoices[1], HeroPairStatsChoices[2],
                   MapOf({<<<<1, 9>>, Entry(0, 0, 0)>>, <<<<5, 8>>, EntryNoWilson(2, 1)>>})}}

\* Values of HERO_RECOMMEND_OPTIONS and SKILL_RECOMMEND_OPTIONS other than
\* the shipped ones: weights in tenths, all zero, one only, equal, and not
\* summing to 1.
HeroOptionChoices ==
    {[minGames |-> 2, weightSetCombination |-> w[1], weightFullTeamCombination |-> w[2],
      weightPairStats |-> w[3], weightSkillHeroPairs |-> w[4]] :
        w \in {<<5, 3, 1, 1>>, <<0, 0, 0, 0>>, <<1, 0, 0, 0>>, <<2, 2, 2, 2>>,
               <<0, 3, 0, 7>>, <<10, 20, 30, 40>>}}

SkillOptionChoices ==
    {[minGames |-> 2, weightIndividualSkills |-> w[1], weightSkillHeroPairs |-> w[2]] :
        w \in {<<7, 3>>, <<0, 0>>, <<0, 4>>, <<3, 3>>, <<20, 5>>}}

\* recommendHeroSet with HERO_RECOMMEND_OPTIONS set to options.
HeroOptionCalls ==
    {[fn |-> "recommendHeroSetWith", done |-> FALSE, result |-> Null,
      args |-> [availableSets |-> sets, currentHeroes |-> team.heroes,
                currentSkills |-> team.skills, battleStats |-> stats,
                options |-> options],
      input |-> [availableSets |-> sets, currentHeroes |-> team.heroes,
                 currentSkills |-> team.skills, battleStats |-> stats,
                 options |-> options]] :
        sets \in {<<<<5, 6, 7>>, <<8, 9, 10>>>>, <<<<8, 9, 10>>>>},
        team \in TeamChoices,
        stats \in {HeroBattleStats(3, 2, 2, 2), HeroBattleStats(6, 2, 2, 2)},
        options \in HeroOptionChoices}

SkillOptionCalls ==
    {[fn |-> "recommendSkillSetWith", done |-> FALSE, result |-> Null,
      args |-> [availableSets |-> sets, currentHeroes |-> team.heroes,
                currentSkills |-> team.skills, battleStats |-> stats,
                options |-> options],
      input |-> [availableSets |-> sets, currentHeroes |-> team.heroes,
                 currentSkills |-> team.skills, battleStats |-> stats,
                 options |-> options]] :
        sets \in {<<<<5, 6, 7>>, <<8, 9, 10>>>>, <<<<6, 5>>>>},
        team \in TeamChoices,
        stats \in {SkillBattleStats(3, 2, 1), SkillBattleStats(6, 2, 2)},
        options \in SkillOptionChoices}

\* wins and losses of an entry of at most MaxGames games, none included;
\* total is their sum.
WilsonCalls ==
    {[fn |-> "wilsonLowerBound", done |-> FALSE, result |-> Null,
      args |-> [wins |-> wl[1], total |-> wl[1] + wl[2]],
      input |-> [wins |-> wl[1], total |-> wl[1] + wl[2]]] :
        wl \in {p \in (0..MaxGames) \X (0..MaxGames) : p[1] + p[2] <= MaxGames}}

\* An entry of at most two wins and two losses against each of the item
\* statistics and a map whose only entry has no games; priorWeight 10, the
\* default, and 4.
ShrinkageCalls ==
    {[fn |-> "shrinkageEstimate", done |-> FALSE, result |-> Null,
      args |-> [wins |-> w, total |-> w + l, statsMap |-> m, priorWeight |-> pw],
      input |-> [wins |-> w, total |-> w + l, statsMap |-> m, priorWeight |-> pw]] :
        w \in 0..2, l \in 0..2, pw \in {10, 4},
        m \in {ItemStatsChoices[n] : n \in DOMAIN ItemStatsChoices}
               \cup {MapOf({<<5, Entry(0, 0, 0)>>})}}

InitCalls ==
    /\ InitReducer
    /\ InitComponents
    /\ cookie = Null
    /\ lastAction = [type |-> "init"]
    /\ call \in HeroCalls \cup SkillCalls \cup RoundInfoCalls \cup CombinationCalls
                 \cup PairCalls \cup HeroOptionCalls \cup SkillOptionCalls
                 \cup WilsonCalls \cup ShrinkageCalls

CallRecommendHeroSet ==
    /\ call.fn = "recommendHeroSet"
    /\ ~call.done
    /\ call' = [call EXCEPT
           !.done = TRUE,
           !.result = recommendHeroSet(call.args.availableSets, call.args.currentHeroes,
                                       call.args.battleStats, call.args.currentSkills),
           !.args = ArgumentsAfterCall(call.args.availableSets, call.args.currentHeroes,
                                       call.args.currentSkills, call.args.battleStats)]
    /\ UNCHANGED <<reducerVars, componentVars, cookie, lastAction>>

CallRecommendSkillSet ==
    /\ call.fn = "recommendSkillSet"
    /\ ~call.done
    /\ call' = [call EXCEPT
           !.done = TRUE,
           !.result = recommendSkillSet(call.args.availableSets, call.args.currentHeroes,
                                        call.args.currentSkills, call.args.battleStats),
           !.args = ArgumentsAfterCall(call.args.availableSets, call.args.currentHeroes,
                                       call.args.currentSkills, call.args.battleStats)]
    /\ UNCHANGED <<reducerVars, componentVars, cookie, lastAction>>

CallGetRoundInfo ==
    /\ call.fn = "getRoundInfo"
    /\ ~call.done
    /\ call' = [call EXCEPT !.done = TRUE,
                            !.result = getRoundInfo(call.args.roundNumber)]
    /\ UNCHANGED <<reducerVars, componentVars, cookie, lastAction>>

CallGenerate3HeroCombinations ==
    /\ call.fn = "generate3HeroCombinations"
    /\ ~call.done
    /\ call' = [call EXCEPT !.done = TRUE,
                            !.result = generate3HeroCombinations(call.args.team)]
    /\ UNCHANGED <<reducerVars, componentVars, cookie, lastAction>>

CallGetHeroPairWinRate ==
    /\ call.fn = "getHeroPairWinRate"
    /\ ~call.done
    /\ call' = [call EXCEPT !.done = TRUE,
                            !.result = getHeroPairWinRate(call.args.h1, call.args.h2,
                                                          call.args.heroPairStats)]
    /\ UNCHANGED <<reducerVars, componentVars, cookie, lastAction>>

CallRecommendHeroSetWith ==
    /\ call.fn = "recommendHeroSetWith"
    /\ ~call.done
    /\ call' = [call EXCEPT
           !.done = TRUE,
           !.result = recommendHeroSetWith(call.args.availableSets,
                          call.args.currentHeroes, call.args.battleStats,
                          call.args.currentSkills, call.args.options)]
    /\ UNCHANGED <<reducerVars, componentVars, cookie, lastAction>>

CallRecommendSkillSetWith ==
    /\ call.fn = "recommendSkillSetWith"
    /\ ~call.done
    /\ call' = [call EXCEPT
           !.done = TRUE,
           !.result = recommendSkillSetWith(call.args.availableSets,
                          call.args.currentHeroes, call.args.currentSkills,
                          call.args.battleStats, call.args.options)]
    /\ UNCHANGED <<reducerVars, componentVars, cookie, lastAction>>

CallWilsonLowerBound ==
    /\ call.fn = "wilsonLowerBound"
    /\ ~call.done
    /\ call' = [call EXCEPT !.done = TRUE,
                            !.result = wilsonLowerBound(call.args.wins, call.args.total)]
    /\ UNCHANGED <<reducerVars, componentVars, cookie, lastAction>>

CallShrinkageEstimate ==
    /\ call.fn = "shrinkageEstimate"
    /\ ~call.done
    /\ call' = [call EXCEPT
           !.done = TRUE,
           !.result = shrinkageEstimate(call.args.wins, call.args.total,
                                        call.args.statsMap, call.args.priorWeight)]
    /\ UNCHANGED <<reducerVars, componentVars, cookie, lastAction>>

NextCalls ==
    \/ CallRecommendHeroSet
    \/ CallRecommendSkillSet
    \/ CallGetRoundInfo
    \/ CallGenerate3HeroCombinations
    \/ CallGetHeroPairWinRate
    \/ CallRecommendHeroSetWith
    \/ CallRecommendSkillSetWith
    \/ CallWilsonLowerBound
    \/ CallShrinkageEstimate

SpecCalls == InitCalls /\ [][NextCalls]_vars

(***************************************************************************)
(* Spec: the application.  GameAdvisor shows SetupForm while gameState is  *)
(* null and GameBoard otherwise; AppLayout holds the reset button.  A      *)
(* handler is callable while its component shows it; the disabled          *)
(* attribute of a button is not taken as a guard, the handlers repeat the  *)
(* checks themselves.                                                      *)
(***************************************************************************)
\* databaseItems of index.js
DatabaseItems ==
    [heroes |-> [i \in 1..13 |-> i], skills |-> [i \in 1..13 |-> i]]

\* battle_stats.json as the client-side api imports it.
BattleStats ==
    [hero_stats  |-> MapOf({<<5, Entry(8, 2, 49)>>, <<8, Entry(1, 9, 1)>>,
                            <<11, Entry(30, 10, 60)>>}),
     skill_stats |-> MapOf({<<5, Entry(8, 2, 49)>>, <<11, Entry(1, 0, 21)>>}),
     hero_pair_stats |-> MapOf({<<<<1, 5>>, Entry(2, 0, 34)>>}),
     hero_combinations |-> MapOf({<<<<1, 2, 5>>, Entry(3, 0, 44)>>}),
     skill_pair_stats |-> MapOf({}),
     skill_hero_pair_stats |-> MapOf({<<<<1, 5>>, Entry(3, 1, 30)>>})]

\* The messages of setError in GameBoard, by their meaning: every set must
\* have the round's number of items; select a set first; invalid choice;
\* getting the recommendation failed.
SetsIncomplete == "each of the three sets must have exactly N items"
NothingSelected == "select a set first"
InvalidChoice == "invalid choice"
RecommendationFailed == "getting the recommendation failed"

\* The user enters the seeds 1, 2, 3, 4 in this order, and then one more.
NextSeed(list) == Len(list) + 1
\* The option sets the user clicks in the analysis grid: the first and the
\* recommended one.
ClickedIndices(recommendation) ==
    {0} \cup {recommendation.recommended_set_index[i] :
                i \in DOMAIN recommendation.recommended_set_index}
\* What the user enters as option set index of a round of this size: the
\* offered set, and for the first set also one item short.
EnteredSets(index, size) ==
    {Offer(index, size)} \cup (IF index = 0 THEN {Offer(index, size - 1)} ELSE {})

\* What the user saves in the team dialog: the team without the first seed
\* hero.
EditedTeams(gs) ==
    {[heroes |-> Without(gs.current_heroes, 1), skills |-> gs.current_skills]}

SetupShown == gameState = Null /\ databaseLoaded

InterstitialShown ==
    /\ gameState # Null
    /\ gameState.round_number = 7
    /\ ~("round7_interstitial_dismissed" \in DOMAIN gameState
           /\ gameState.round7_interstitial_dismissed)

CompleteShown == gameState # Null /\ gameState.round_number > 8

BoardShown == gameState # Null /\ ~InterstitialShown /\ ~CompleteShown

\* The provider after its mount effects with databaseItems, no cookie.
InitApp ==
    /\ gameState = Null
    /\ currentRoundInputs = EmptyRoundInputs
    /\ selectedOptionIndex = <<>>
    /\ currentRecommendation = Null
    /\ isLoading = FALSE
    /\ error = "null"
    /\ gameComplete = <<>>
    /\ availableHeroes = DatabaseItems.heroes
    /\ availableSkills = DatabaseItems.skills
    /\ databaseLoaded = TRUE
    /\ InitComponents
    /\ cookie = Null
    /\ lastAction = [type |-> "init"]
    /\ call = NoCall

handleAddHero ==
    /\ SetupShown
    /\ \E hero \in {NextSeed(setupHeroes)} :
          setupHeroes' = IF Len(setupHeroes) < 4 THEN Append(setupHeroes, hero)
                         ELSE setupHeroes
    /\ lastAction' = [type |-> "handleAddHero"]
    /\ UNCHANGED <<reducerVars, cookie, call, setupSkills, setupError,
                   boardLoading, boardError, pending>>

handleRemoveHero ==
    /\ SetupShown
    /\ setupHeroes # <<>>
    /\ \E hero \in {setupHeroes[Len(setupHeroes)]} :
          setupHeroes' = Without(setupHeroes, hero)
    /\ lastAction' = [type |-> "handleRemoveHero"]
    /\ UNCHANGED <<reducerVars, cookie, call, setupSkills, setupError,
                   boardLoading, boardError, pending>>

handleAddSkill ==
    /\ SetupShown
    /\ \E skill \in {NextSeed(setupSkills)} :
          setupSkills' = IF Len(setupSkills) < 4 THEN Append(setupSkills, skill)
                         ELSE setupSkills
    /\ lastAction' = [type |-> "handleAddSkill"]
    /\ UNCHANGED <<reducerVars, cookie, call, setupHeroes, setupError,
                   boardLoading, boardError, pending>>

handleRemoveSkill ==
    /\ SetupShown
    /\ setupSkills # <<>>
    /\ \E skill \in {setupSkills[Len(setupSkills)]} :
          setupSkills' = Without(setupSkills, skill)
    /\ lastAction' = [type |-> "handleRemoveSkill"]
    /\ UNCHANGED <<reducerVars, cookie, call, setupHeroes, setupError,
                   boardLoading, boardError, pending>>

\* On START_GAME GameAdvisor replaces SetupForm by GameBoard: the state of
\* SetupForm is dropped, the next SetupForm starts from useState's values.
handleStartGame ==
    /\ SetupShown
    /\ LET validation == validateGameInput(setupHeroes, setupSkills) IN
        IF ~validation.valid
        THEN /\ setupError' = validation.error
             /\ lastAction' = [type |-> "handleStartGame", started |-> FALSE,
                               heroes |-> setupHeroes, skills |-> setupSkills]
             /\ UNCHANGED <<reducerVars, cookie, setupHeroes, setupSkills>>
        ELSE /\ START_GAME(setupHeroes, setupSkills)
             /\ AutoSave(TRUE)
             /\ setupHeroes' = <<>>
             /\ setupSkills' = <<>>
             /\ setupError' = "null"
             /\ lastAction' = [type |-> "handleStartGame", started |-> TRUE,
                               heroes |-> setupHeroes, skills |-> setupSkills]
    /\ UNCHANGED <<call, boardLoading, boardError, pending>>

handleUpdateSet ==
    /\ BoardShown
    /\ \E index \in SetIndices :
       \E items \in EnteredSets(index, getItemsPerSet(gameState.round_number)) :
          /\ UPDATE_ROUND_INPUT(SetNameOf(index), items)
          /\ AutoSave(TRUE)
    /\ lastAction' = [type |-> "handleUpdateSet"]
    /\ UNCHANGED <<call, componentVars>>

\* Up to the await.  One call is awaited at a time.
handleGetRecommendation ==
    /\ BoardShown
    /\ pending = Null
    /\ LET itemsPerSet == getItemsPerSet(gameState.round_number)
           availableSets == <<currentRoundInputs.set1, currentRoundInputs.set2,
                              currentRoundInputs.set3>>
       IN IF \E n \in DOMAIN availableSets : Len(availableSets[n]) # itemsPerSet
          THEN /\ boardError' = SetsIncomplete
               /\ boardLoading' = FALSE
               /\ pending' = pending
               /\ lastAction' = [type |-> "handleGetRecommendation", sent |-> FALSE]
          ELSE /\ boardError' = "null"
               /\ boardLoading' = TRUE
               /\ pending' = [roundType |-> getRoundType(gameState.round_number),
                              availableSets |-> availableSets,
                              gameState |-> gameState]
               /\ lastAction' = [type |-> "handleGetRecommendation", sent |-> TRUE]
    /\ UNCHANGED <<reducerVars, cookie, call, setupHeroes, setupSkills, setupError>>

\* After the await: dispatch of the response, then the finally block.
RecommendationResponse ==
    /\ pending # Null
    /\ SET_RECOMMENDATION(getRecommendation(pending.roundType, pending.availableSets,
                                            pending.gameState, BattleStats))
    /\ AutoSave(FALSE)
    /\ boardLoading' = FALSE
    /\ pending' = Null
    /\ lastAction' = [type |-> "RecommendationResponse"]
    /\ UNCHANGED <<call, setupHeroes, setupSkills, setupError, boardError>>

\* After the await, the call rejected: the catch and the finally block, in a
\* GameBoard that is still shown.
RecommendationFailure ==
    /\ pending # Null
    /\ boardError' = IF gameState # Null THEN RecommendationFailed ELSE boardError
    /\ boardLoading' = FALSE
    /\ pending' = Null
    /\ lastAction' = [type |-> "RecommendationFailure"]
    /\ UNCHANGED <<reducerVars, cookie, call, setupHeroes, setupSkills, setupError>>

handleSelectOption ==
    /\ BoardShown
    /\ currentRecommendation # Null
    /\ \E index \in ClickedIndices(currentRecommendation) :
          /\ SELECT_OPTION(index)
          /\ AutoSave(FALSE)
    /\ lastAction' = [type |-> "handleSelectOption"]
    /\ UNCHANGED <<call, componentVars>>

\* handleRecordChoice without the check of the chosen set's length.
handleRecordChoice_unchecked ==
    /\ BoardShown
    /\ currentRecommendation # Null
    /\ IF selectedOptionIndex = <<>>
       THEN /\ boardError' = NothingSelected
            /\ lastAction' = [type |-> "handleRecordChoice", recorded |-> FALSE]
            /\ UNCHANGED <<reducerVars, cookie>>
       ELSE LET chosenSet == currentRoundInputs[SetNameOf(selectedOptionIndex[1])]
            IN /\ RECORD_CHOICE(getRoundType(gameState.round_number), chosenSet,
                                selectedOptionIndex[1])
               /\ AutoSave(TRUE)
               /\ boardError' = "null"
               /\ lastAction' = [type |-> "handleRecordChoice",
                                 recorded |-> TRUE, chosenSet |-> chosenSet]
    /\ UNCHANGED <<call, setupHeroes, setupSkills, setupError, boardLoading, pending>>

\* The confirm button is part of the block shown with a recommendation.
handleRecordChoice ==
    /\ BoardShown
    /\ currentRecommendation # Null
    /\ IF selectedOptionIndex = <<>>
       THEN /\ boardError' = NothingSelected
            /\ lastAction' = [type |-> "handleRecordChoice", recorded |-> FALSE]
            /\ UNCHANGED <<reducerVars, cookie>>
       ELSE LET chosenSet == currentRoundInputs[SetNameOf(selectedOptionIndex[1])]
                itemsPerSet == getItemsPerSet(gameState.round_number)
            IN IF Len(chosenSet) # itemsPerSet
               THEN /\ boardError' = InvalidChoice
                    /\ lastAction' = [type |-> "handleRecordChoice",
                                      recorded |-> FALSE, chosenSet |-> chosenSet]
                    /\ UNCHANGED <<reducerVars, cookie>>
               ELSE /\ RECORD_CHOICE(getRoundType(gameState.round_number), chosenSet,
                                     selectedOptionIndex[1])
                    /\ AutoSave(TRUE)
                    /\ boardError' = "null"
                    /\ lastAction' = [type |-> "handleRecordChoice",
                                      recorded |-> TRUE, chosenSet |-> chosenSet]
    /\ UNCHANGED <<call, setupHeroes, setupSkills, setupError, boardLoading, pending>>

\* The edit dialog of CurrentTeam, shown by the board and by the
\* interstitial, saved with what EditedTeams lists.
handleUpdateTeam ==
    /\ gameState # Null
    /\ ~CompleteShown
    /\ \E team \in EditedTeams(gameState) :
          /\ UPDATE_TEAM(team.heroes, team.skills)
          /\ AutoSave(TRUE)
    /\ lastAction' = [type |-> "handleUpdateTeam"]
    /\ UNCHANGED <<call, componentVars>>

\* The interstitial's button dispatches DISMISS_ROUND7_INTERSTITIAL, which
\* gameReducer does not list.
DismissInterstitial ==
    /\ InterstitialShown
    /\ UnhandledAction
    /\ AutoSave(FALSE)
    /\ lastAction' = [type |-> "DISMISS_ROUND7_INTERSTITIAL"]
    /\ UNCHANGED <<call, componentVars>>

\* AppLayout, with the confirm accepted.  GameBoard is replaced by SetupForm.
handleResetProgress ==
    /\ gameState # Null
    /\ RESET_GAME
    /\ cookie' = Null
    /\ boardLoading' = FALSE
    /\ boardError' = "null"
    /\ lastAction' = [type |-> "handleResetProgress"]
    /\ UNCHANGED <<call, setupHeroes, setupSkills, setupError, pending>>

\* The page is loaded again: a new provider runs its mount effects on the
\* cookie, the components start from useState's values, an awaited call of
\* the old page is gone.
Reload ==
    /\ gameState' = IF cookie # Null THEN cookie.gameState ELSE Null
    /\ currentRoundInputs' = IF cookie # Null THEN cookie.currentRoundInputs
                             ELSE EmptyRoundInputs
    /\ selectedOptionIndex' = <<>>
    /\ currentRecommendation' = Null
    /\ isLoading' = FALSE
    /\ error' = "null"
    /\ gameComplete' = <<>>
    /\ availableHeroes' = DatabaseItems.heroes
    /\ availableSkills' = DatabaseItems.skills
    /\ databaseLoaded' = TRUE
    /\ setupHeroes' = <<>>
    /\ setupSkills' = <<>>
    /\ setupError' = "null"
    /\ boardLoading' = FALSE
    /\ boardError' = "null"
    /\ pending' = Null
    /\ lastAction' = [type |-> "Reload"]
    /\ UNCHANGED <<cookie, call>>

Next ==
    \/ handleAddHero
    \/ handleRemoveHero
    \/ handleAddSkill
    \/ handleRemoveSkill
    \/ handleStartGame
    \/ handleUpdateSet
    \/ handleGetRecommendation
    \/ RecommendationResponse
    \/ RecommendationFailure
    \/ handleSelectOption
    \/ handleRecordChoice
    \/ handleUpdateTeam
    \/ DismissInterstitial
    \/ handleResetProgress
    \/ Reload

Spec == InitApp /\ [][Next]_vars

(***************************************************************************)
(* Claims                                                                  *)
(***************************************************************************)
IsRecordChoice(a) == a.type = "RECORD_CHOICE"

\* C1: a RECORD_CHOICE of type 'hero' appends the chosen set, in order, to
\* the end of current_heroes and leaves current_skills alone; of type 'skill'
\* it appends to current_skills and leaves current_heroes alone; either way
\* round_history grows by one entry and round_number by exactly 1.
C1_RecordChoiceAppends ==
    [][IsRecordChoice(lastAction') =>
        /\ lastAction'.roundType = "hero" =>
              /\ gameState'.current_heroes
                    = gameState.current_heroes \o lastAction'.chosenSet
              /\ gameState'.current_skills = gameState.current_skills
        /\ lastAction'.roundType = "skill" =>
              /\ gameState'.current_skills
                    = gameState.current_skills \o lastAction'.chosenSet
              /\ gameState'.current_heroes = gameState.current_heroes
        /\ Len(gameState'.round_history) = Len(gameState.round_history) + 1
        /\ gameState'.round_number = gameState.round_number + 1]_vars

\* Seeds [H1..H4]/[S1..S4], then 'hero' [H5,H6,H7] and 'skill' [S5,S6,S7].
C1_Witness ==
    /\ IsRecordChoice(lastAction)
    /\ lastAction.roundType = "skill"
    /\ gameState.current_heroes = <<1, 2, 3, 4, 5, 6, 7>>
    /\ gameState.current_skills = <<1, 2, 3, 4, 5, 6, 7>>
    /\ gameState.round_number = 3

\* C2: START_GAME gives round_number 1, each RECORD_CHOICE adds exactly 1 and
\* no other dispatch changes the round_number of a draft, so after k recorded
\* choices it is 1 + k; the gameComplete a RECORD_CHOICE reports is true
\* exactly when the resulting round_number is greater than 8.
C2_RoundNumberAndCompletion ==
    [][/\ lastAction'.type = "START_GAME" => gameState'.round_number = 1
       /\ IsRecordChoice(lastAction') =>
             /\ gameState'.round_number = gameState.round_number + 1
             /\ gameComplete' = <<gameState'.round_number > 8>>
       /\ (/\ ~IsRecordChoice(lastAction')
           /\ IsDraft(gameState) /\ IsDraft(gameState')
           /\ lastAction'.type \notin {"START_GAME", "RESTORE_PROGRESS"}) =>
             gameState'.round_number = gameState.round_number]_vars

\* The 8th recorded choice of a draft.
C2_Witness ==
    /\ IsRecordChoice(lastAction)
    /\ Len(gameState.round_history) = 8
    /\ gameState.round_number = 9
    /\ gameComplete = <<TRUE>>

\* C3: a RECORD_CHOICE dispatched once round_number exceeds 8 is rejected
\* with an error and leaves the draft unchanged.
C3_TerminalReadOnly ==
    [][(/\ IsDraft(gameState)
        /\ gameState.round_number > 8
        /\ IsRecordChoice(lastAction')) =>
          /\ gameState' = gameState
          /\ error' # "null"]_vars

\* The set size the specification requires in a round.
RequiredSize(roundNumber) == IF roundNumber = 7 THEN 2 ELSE 3

C6_RoundMapping ==
    (call.fn = "getRoundInfo" /\ call.done /\ call.input.roundNumber \in 1..8) =>
        /\ call.result.roundType = "hero" <=> call.input.roundNumber \in {1, 4, 7}
        /\ call.result.roundType = "skill" <=> call.input.roundNumber \in {2, 3, 5, 6, 8}
        /\ call.result.itemsPerSet = 2 <=> call.input.roundNumber = 7
        /\ call.input.roundNumber # 7 => call.result.itemsPerSet = 3

\* getRoundInfo(8): a skill round of three.
C6_Witness ==
    /\ call.fn = "getRoundInfo" /\ call.done
    /\ call.input.roundNumber = 8
    /\ call.result.roundType = "skill"
    /\ call.result.itemsPerSet = 3

IsRecommendCall == call.fn \in {"recommendHeroSet", "recommendSkillSet"}

\* C7: the recommended index is that of a set whose final score is maximal
\* among the offered sets, and of the first such set when several tie.
C7_FirstMaximum ==
    (IsRecommendCall /\ call.done /\ call.input.availableSets # <<>>) =>
        \E n \in DOMAIN call.result.analysis :
            /\ call.result.recommended_set = <<n - 1>>
            /\ call.result.analysis[n].set_index = n - 1
            /\ \A m \in DOMAIN call.result.analysis :
                  ~Greater(call.result.analysis[m].final_score,
                           call.result.analysis[n].final_score)
            /\ \A m \in 1..(n - 1) :
                  Greater(call.result.analysis[n].final_score,
                          call.result.analysis[m].final_score)

\* Three sets, the second and third tie for the maximum, above the first.
C7_Witness ==
    /\ IsRecommendCall /\ call.done
    /\ Len(call.result.analysis) = 3
    /\ call.result.recommended_set = <<1>>
    /\ call.result.analysis[2].final_score = call.result.analysis[3].final_score
    /\ Greater(call.result.analysis[2].final_score,
               call.result.analysis[1].final_score)

\* C8: a call with a number of candidate sets other than 3 is answered with
\* a validation error, not with a scoring result.
C8_ExactlyThreeSets ==
    (IsRecommendCall /\ call.done /\ Len(call.input.availableSets) # 3) =>
        /\ "error" \in DOMAIN call.result
        /\ "analysis" \notin DOMAIN call.result

\* The breakdown of one set scored on its own.
ScoredAlone(n) ==
    IF call.fn = "recommendHeroSet"
    THEN recommendHeroSet(<<call.input.availableSets[n]>>, call.input.currentHeroes,
                          call.input.battleStats, call.input.currentSkills).analysis[1]
    ELSE recommendSkillSet(<<call.input.availableSets[n]>>, call.input.currentHeroes,
                           call.input.currentSkills, call.input.battleStats).analysis[1]

MembersOf(analysis) ==
    IF call.fn = "recommendHeroSet" THEN analysis.heroes ELSE analysis.skills

CallRoundType == IF call.fn = "recommendHeroSet" THEN "hero" ELSE "skill"

\* C9: the analysis has exactly one entry per input set; the entry with
\* set_index i carries the members of the i-th input set and the sub-scores
\* and final score of that set (those it gets when scored on its own), in the
\* engine's result and in the formatted result of api.getRecommendation.
C9_FullBreakdown ==
    (IsRecommendCall /\ call.done) =>
        LET formatted == FormatRecommendation(CallRoundType,
                             call.input.availableSets, call.result)
        IN /\ Len(call.result.analysis) = Len(call.input.availableSets)
           /\ Len(formatted.analysis) = Len(call.input.availableSets)
           /\ \A n \in DOMAIN call.input.availableSets :
                 LET alone == ScoredAlone(n) IN
                 /\ call.result.analysis[n].set_index = n - 1
                 /\ MembersOf(call.result.analysis[n]) = call.input.availableSets[n]
                 /\ call.result.analysis[n] = [alone EXCEPT !.set_index = n - 1]
                 /\ formatted.analysis[n].set_index = n - 1
                 /\ formatted.analysis[n].items = call.input.availableSets[n]
                 /\ formatted.analysis[n].final_score = RoundTenths(alone.final_score)

\* Three different sets, the winner is the second, the others have a score.
C9_Witness ==
    /\ call.fn = "recommendHeroSet" /\ call.done
    /\ Len(call.result.analysis) = 3
    /\ call.result.recommended_set = <<1>>
    /\ call.input.availableSets[1] # call.input.availableSets[3]
    /\ call.result.analysis[1].final_score # Zero
    /\ call.result.analysis[3].final_score # Zero
    /\ call.result.analysis[3].final_score # call.result.analysis[1].final_score

Choose3(n) == (n * (n - 1) * (n - 2)) \div 6

\* C11: for a pool of n >= 3 heroes generate3HeroCombinations returns exactly
\* C(n,3) triples, each sorted, each made of heroes of the pool, no two of
\* them equal; for a pool of fewer than 3 it returns the empty sequence.
C11_CombinationEnumerator ==
    (call.fn = "generate3HeroCombinations" /\ call.done) =>
        IF Len(call.input.team) < 3 THEN call.result = <<>>
        ELSE /\ Len(call.result) = Choose3(Len(call.input.team))
             /\ \A p \in DOMAIN call.result :
                   /\ call.result[p] = Sorted(call.result[p])
                   /\ \A q \in 1..3 : Includes(call.input.team, call.result[p][q])
             /\ \A p, q \in DOMAIN call.result : p # q => call.result[p] # call.result[q]

\* The smaller and the larger of two heroes, as the sorted key lists them.
PairKey(a, b) == IF a <= b THEN <<a, b>> ELSE <<b, a>>

\* C12: the lookup of a hero pair gives the entry stored under the sorted
\* pair, whichever order the two heroes are passed in (its total, and its
\* adjusted rate), and the no-data result when the map has no such entry or
\* an entry without games; so the lookups of (A,B) and (B,A) are equal.
C12_PairLookupSymmetric ==
    (call.fn = "getHeroPairWinRate" /\ call.done) =>
        LET key == PairKey(call.input.h1, call.input.h2)
            stats == call.input.heroPairStats
        IN /\ call.result = getHeroPairWinRate(call.input.h2, call.input.h1, stats)
           /\ IF key \in DOMAIN stats /\ stats[key].wins + stats[key].losses > 0
              THEN /\ call.result.total = stats[key].wins + stats[key].losses
                   /\ call.result.adjusted = WilsonOf(stats[key])
              ELSE call.result = NoData

\* The pair (H8, H1) is found under the key of (H1, H8).
C12_Witness ==
    /\ call.fn = "getHeroPairWinRate" /\ call.done
    /\ call.input.h1 = 8 /\ call.input.h2 = 1
    /\ call.result = [adjusted |-> 21, total |-> 1]

\* The sum of the values of a set of <<position, value>>.
RECURSIVE SumValues(_)
SumValues(S) ==
    IF S = {} THEN 0
    ELSE LET x == CHOOSE y \in S : TRUE IN x[2] + SumValues(S \ {x})

MeanOfValues(S) == IF S = {} THEN Zero ELSE Frac(SumValues(S), Cardinality(S))

\* The entries of map under key(p), p a position of positions, that exist and
\* have at least minGames games, as <<position, adjusted rate x 100>>.
EligibleHeroPairs(team, set, map, minGames) ==
    {<<p, WilsonOf(map[PairKey(team[p[1]], set[p[2]])])>> :
        p \in {q \in (DOMAIN team) \X (DOMAIN set) :
                 /\ PairKey(team[q[1]], set[q[2]]) \in DOMAIN map
                 /\ map[PairKey(team[q[1]], set[q[2]])].wins
                      + map[PairKey(team[q[1]], set[q[2]])].losses >= minGames}}

EligibleSkillHeroPairs(heroes, skills, map, minGames) ==
    {<<p, WilsonOf(map[<<heroes[p[1]], skills[p[2]]>>])>> :
        p \in {q \in (DOMAIN heroes) \X (DOMAIN skills) :
                 /\ <<heroes[q[1]], skills[q[2]]>> \in DOMAIN map
                 /\ map[<<heroes[q[1]], skills[q[2]]>>].wins
                      + map[<<heroes[q[1]], skills[q[2]]>>].losses >= minGames}}

SubScores(a) ==
    IF call.fn = "recommendHeroSet"
    THEN <<a.individual_scores, a.score_full_team_combination, a.score_pair_stats,
           a.score_skill_hero_pairs>>
    ELSE <<a.individual_scores, a.score_skill_hero_pairs>>

ConfiguredWeights ==
    IF call.fn = "recommendHeroSet"
    THEN <<HERO_RECOMMEND_OPTIONS.weightSetCombination,
           HERO_RECOMMEND_OPTIONS.weightFullTeamCombination,
           HERO_RECOMMEND_OPTIONS.weightPairStats,
           HERO_RECOMMEND_OPTIONS.weightSkillHeroPairs>>
    ELSE <<SKILL_RECOMMEND_OPTIONS.weightIndividualSkills,
           SKILL_RECOMMEND_OPTIONS.weightSkillHeroPairs>>

\* The individual sub-score keeps details null, the others an empty list.
NoEligible(a, i) ==
    IF i = 1 THEN a.individual_scores.details = Null
    ELSE SubScores(a)[i].details = <<>>

AllMapsEmpty(stats) ==
    /\ DOMAIN stats.hero_stats = {}
    /\ DOMAIN stats.skill_stats = {}
    /\ DOMAIN stats.hero_pair_stats = {}
    /\ DOMAIN stats.skill_pair_stats = {}
    /\ DOMAIN stats.hero_combinations = {}
    /\ DOMAIN stats.skill_hero_pair_stats = {}

\* C14: a sub-score without eligible item is exactly 0; the final score is
\* the sum of the sub-scores each times its configured weight over the sum
\* of ALL configured weights, those of the empty sub-scores included; with
\* every statistics map empty all sub-scores and final scores are 0 and the
\* recommended index is 0.
C14_EmptySubScoreIsZero ==
    (IsRecommendCall /\ call.done) =>
        /\ \A n \in DOMAIN call.result.analysis :
              LET a == call.result.analysis[n]
                  subs == SubScores(a)
                  total == SumSeq(ConfiguredWeights)
              IN /\ \A i \in DOMAIN subs : NoEligible(a, i) => subs[i].score = Zero
                 /\ a.final_score =
                        SumFrac([i \in DOMAIN subs |->
                            Times(Frac(ConfiguredWeights[i], total), subs[i].score)])
        /\ (AllMapsEmpty(call.input.battleStats) /\ call.input.availableSets # <<>>) =>
              /\ \A n \in DOMAIN call.result.analysis :
                    /\ call.result.analysis[n].final_score = Zero
                    /\ \A i \in DOMAIN SubScores(call.result.analysis[n]) :
                          SubScores(call.result.analysis[n])[i].score = Zero
              /\ call.result.recommended_set = <<0>>

\* Only the individual sub-score has data: the final score is half of it,
\* the three empty sub-scores keep their half of the weight.
C14_Witness ==
    /\ call.fn = "recommendHeroSet" /\ call.done
    /\ \E n \in DOMAIN call.result.analysis :
          LET a == call.result.analysis[n]
          IN /\ a.individual_scores.score # Zero
             /\ \A i \in 2..4 : NoEligible(a, i)
             /\ a.final_score = Times(Frac(1, 2), a.individual_scores.score)

IsOptionCall == call.fn \in {"recommendHeroSetWith", "recommendSkillSetWith"}

OptionWeights ==
    IF call.fn = "recommendHeroSetWith"
    THEN <<call.input.options.weightSetCombination,
           call.input.options.weightFullTeamCombination,
           call.input.options.weightPairStats,
           call.input.options.weightSkillHeroPairs>>
    ELSE <<call.input.options.weightIndividualSkills,
           call.input.options.weightSkillHeroPairs>>

OptionSubScores(a) ==
    IF call.fn = "recommendHeroSetWith"
    THEN <<a.individual_scores.score, a.score_full_team_combination.score,
           a.score_pair_stats.score, a.score_skill_hero_pairs.score>>
    ELSE <<a.individual_scores.score, a.score_skill_hero_pairs.score>>

\* The weight the claim gives sub-score i.
AppliedWeight(i) ==
    IF SumSeq(OptionWeights) = 0 THEN Frac(1, Len(OptionWeights))
    ELSE Frac(OptionWeights[i], SumSeq(OptionWeights))

\* C15: whatever non-negative weights are configured, the final score of a
\* set is the sum of its sub-scores each times its configured weight divided
\* by the sum of the configured weights, or times 1/4 (hero round) or 1/2
\* (skill round) when the configured weights sum to 0; these weights sum to 1.
C15_WeightsNormalized ==
    (IsOptionCall /\ call.done) =>
        /\ SumFrac([i \in DOMAIN OptionWeights |-> AppliedWeight(i)]) = Frac(1, 1)
        /\ \A n \in DOMAIN call.result.analysis :
              call.result.analysis[n].final_score =
                  SumFrac([i \in DOMAIN OptionWeights |->
                      Times(AppliedWeight(i),
                            OptionSubScores(call.result.analysis[n])[i])])

\* All four weights configured as 0 and a set whose sub-scores are not all
\* 0: the final score is a quarter of their sum.
C15_Witness ==
    /\ call.fn = "recommendHeroSetWith" /\ call.done
    /\ SumSeq(OptionWeights) = 0
    /\ \E n \in DOMAIN call.result.analysis :
          /\ call.result.analysis[n].final_score # Zero
          /\ call.result.analysis[n].final_score =
                Times(Frac(1, 4),
                      SumFrac(OptionSubScores(call.result.analysis[n])))

InRange(score) == ~Greater(Zero, score) /\ ~Greater(score, Frac(100, 1))

AllScores(a) ==
    IF call.fn \in {"recommendHeroSet", "recommendHeroSetWith"}
    THEN <<a.individual_scores.score, a.score_full_team_combination.score,
           a.score_pair_stats.score, a.score_skill_hero_pairs.score, a.final_score>>
    ELSE <<a.individual_scores.score, a.score_skill_hero_pairs.score, a.final_score>>

\* C16: with adjusted rates between 0 and 1 in the statistics, every
\* sub-score and the final score of every candidate set is between 0 and
\* 100, under the shipped weights and under any non-negative weights.
C16_ScoresInRange ==
    ((IsRecommendCall \/ IsOptionCall) /\ call.done) =>
        \A n \in DOMAIN call.result.analysis :
            \A i \in DOMAIN AllScores(call.result.analysis[n]) :
                InRange(AllScores(call.result.analysis[n])[i])

\* A set with data for all four sub-scores, each above 0.
C16_Witness ==
    /\ call.fn = "recommendHeroSet" /\ call.done
    /\ \E n \in DOMAIN call.result.analysis :
          /\ \A i \in 1..5 : Greater(AllScores(call.result.analysis[n])[i], Zero)
          /\ Len(call.result.analysis[n].individual_scores.details.hero_details) >= 2

\* The members of set with an entry of at least minGames games, as
\* <<position, adjusted rate x 100>>.
EligibleMembers(set, map, minGames) ==
    {<<j, WilsonOf(map[set[j]])>> :
        j \in {k \in DOMAIN set : /\ set[k] \in DOMAIN map
                                   /\ map[set[k]].wins + map[set[k]].losses >= minGames}}

\* C17: the individual sub-score of a set is the mean of the adjusted rates
\* (x100) of exactly its members that have an entry with at least minGames
\* games: a member without entry is not in the denominator, a member that
\* never won is, and the sub-score is 0 when no member is eligible.
C17_IndividualScore ==
    (IsRecommendCall /\ call.done) =>
        \A n \in DOMAIN call.input.availableSets :
            LET a == call.result.analysis[n]
                hero == call.fn = "recommendHeroSet"
                el == EligibleMembers(call.input.availableSets[n],
                          IF hero THEN call.input.battleStats.hero_stats
                          ELSE call.input.battleStats.skill_stats,
                          IF hero THEN HERO_RECOMMEND_OPTIONS.minGames
                          ELSE SKILL_RECOMMEND_OPTIONS.minGames)
            IN /\ a.individual_scores.score = MeanOfValues(el)
               /\ el = {} => /\ a.individual_scores.score = Zero
                             /\ a.individual_scores.details = Null
               /\ el # {} =>
                     Len(IF hero THEN a.individual_scores.details.hero_details
                         ELSE a.individual_scores.details.skill_details) = Cardinality(el)

\* H6 never won in 4 games and is one of the three members averaged in
\* <<H5, H6, H7>>: (91 + 0 + 100) / 3; of <<H8, H9, H10>> only H8 has an
\* entry and the sub-score is its 84.
C17_Witness ==
    /\ call.fn = "recommendHeroSet" /\ call.done
    /\ call.input.availableSets = <<<<5, 6, 7>>, <<8, 9, 10>>>>
    /\ call.input.battleStats.hero_stats = ItemStatsChoices[6]
    /\ call.result.analysis[1].individual_scores.score = Frac(191, 3)
    /\ call.result.analysis[2].individual_scores.score = Frac(84, 1)

RangeOf(list) == {list[i] : i \in DOMAIN list}

\* The key of a set of three heroes: its members in sorted order.
KeyOf(c) == CHOOSE t \in c \X c \X c : t[1] < t[2] /\ t[2] < t[3]

\* The size-3 combinations of the current heroes plus the candidate set
\* with a current hero and a candidate hero, an entry and enough games, as
\* <<combination, adjusted rate x 100>>.
EligibleCombinations(team, set, map, minGames) ==
    {<<c, WilsonOf(map[KeyOf(c)])>> :
        c \in {d \in SUBSET (RangeOf(team) \cup RangeOf(set)) :
                 /\ Cardinality(d) = 3
                 /\ d \cap RangeOf(team) # {}
                 /\ d \cap RangeOf(set) # {}
                 /\ KeyOf(d) \in DOMAIN map
                 /\ map[KeyOf(d)].wins + map[KeyOf(d)].losses >= minGames}}

\* C18: the full-team sub-score of a hero set is the mean of the adjusted
\* rates (x100) of exactly the size-3 combinations of current heroes plus
\* candidate set that hold a current hero and a candidate hero, have an
\* entry under their sorted key and at least minGames games, each counted
\* once; a combination within the team or within the set does not count.
C18_FullTeamCombinations ==
    (call.fn = "recommendHeroSet" /\ call.done) =>
        \A n \in DOMAIN call.input.availableSets :
            LET a == call.result.analysis[n]
                el == EligibleCombinations(call.input.currentHeroes,
                          call.input.availableSets[n],
                          call.input.battleStats.hero_combinations,
                          HERO_RECOMMEND_OPTIONS.minGames)
            IN /\ a.score_full_team_combination.score = MeanOfValues(el)
               /\ Len(a.score_full_team_combination.details) = Cardinality(el)

\* The candidate skills of set that skill_pair_stats pairs, with at least
\* minGames games and a rate above 0, with a current skill or with another
\* skill of the set.
PairedSkills(set, currentSkills, map, minGames) ==
    {p \in (RangeOf(currentSkills) \cup RangeOf(set)) \X RangeOf(set) :
        /\ p[1] # p[2]
        /\ PairKey(p[1], p[2]) \in DOMAIN map
        /\ map[PairKey(p[1], p[2])].wins + map[PairKey(p[1], p[2])].losses >= minGames
        /\ WilsonOf(map[PairKey(p[1], p[2])]) > 0}

\* C19: the final score of a skill set takes in, next to the individual
\* and the skill-hero sub-scores, the pairwise synergy of the candidate
\* skills with the current skills and among themselves read from
\* skill_pair_stats: a set with such a pair of enough games and a rate
\* above 0 scores otherwise than it does with skill_pair_stats emptied.
C19_SkillPairStatsScored ==
    (call.fn = "recommendSkillSet" /\ call.done) =>
        \A n \in DOMAIN call.input.availableSets :
            PairedSkills(call.input.availableSets[n], call.input.currentSkills,
                         call.input.battleStats.skill_pair_stats,
                         SKILL_RECOMMEND_OPTIONS.minGames) # {}
            => call.result.analysis[n].final_score #
                 recommendSkillSet(call.input.availableSets, call.input.currentHeroes,
                     call.input.currentSkills,
                     [call.input.battleStats EXCEPT !.skill_pair_stats = MapOf({})]
                 ).analysis[n].final_score

\* x <= n / d for a double x and integers n >= 0, d > 0, exactly
AtMostRatio(x, n, d) ==
    \/ x.m = <<>>
    \/ /\ x.e <= 0
       /\ ~NatLess(Shl(NatOf(n), 0 - x.e), NatMul(x.m, NatOf(d)))

\* C20: for wins >= 0 and losses >= 0 with total = wins + losses > 0 the
\* value r of wilsonLowerBound(wins, total), z = 1.96, has 0 <= r <= 1 and
\* r <= wins / total.
C20_WilsonRange ==
    (call.fn = "wilsonLowerBound" /\ call.done /\ call.input.total > 0) =>
        /\ call.result = FZero \/ FLess(FZero, call.result)
        /\ AtMostRatio(call.result, 1, 1)
        /\ AtMostRatio(call.result, call.input.wins, call.input.total)

\* The wins and the games of all entries of a statistics map.
MapWins(m) == SumValues({<<k, m[k].wins>> : k \in DOMAIN m})
MapGames(m) == SumValues({<<k, m[k].wins + m[k].losses>> : k \in DOMAIN m})

\* C21: with total = 0 wilsonLowerBound returns 0, and the shrinkage
\* estimator returns the global prior of its statistics map: total wins
\* over total games, or 1/2 when the map holds no games.
C21_ZeroData ==
    /\ (call.fn = "wilsonLowerBound" /\ call.done /\ call.input.total = 0) =>
           call.result = FZero
    /\ (call.fn = "shrinkageEstimate" /\ call.done /\ call.input.total = 0) =>
           /\ MapGames(call.input.statsMap) > 0 =>
                 /\ call.result[1] * MapGames(call.input.statsMap)
                        = MapWins(call.input.statsMap) * call.result[2]
                 /\ call.result[2] > 0
           /\ MapGames(call.input.statsMap) = 0 => call.result = <<1, 2>>

C21_Witness ==
    /\ call.fn = "shrinkageEstimate" /\ call.done
    /\ call.input.total = 0
    /\ MapGames(call.input.statsMap) = 20
    /\ call.result = <<9, 20>>

\* The most a weight, in tenths, or a sub-score, in halves, is raised by.
MaxRaise == 3

\* The configured weights with weight i raised by d.
RaisedWeights(i, d) == [OptionWeights EXCEPT ![i] = @ + d]

\* Every weight but weight i is configured as 0.
OthersZero(i) == \A j \in DOMAIN OptionWeights : j # i => OptionWeights[j] = 0

\* For fixed weights the final score does not decrease when one sub-score
\* of the set is raised.
ScoreMonotone ==
    \A n \in DOMAIN call.result.analysis :
    \A i \in DOMAIN OptionWeights, d \in 1..MaxRaise :
        ~Greater(call.result.analysis[n].final_score,
                 WeightedSum([OptionSubScores(call.result.analysis[n])
                                  EXCEPT ![i] = Plus(@, Frac(d, 2))],
                             OptionWeights))

\* C22 as stated: raising the configured weight of one sub-score, the others
\* unchanged, strictly increases the normalized weight of that sub-score, and
\* for fixed weights the final score is non-decreasing in each sub-score.
C22_StrictlyIncreasingShare ==
    (IsOptionCall /\ call.done) =>
        /\ \A i \in DOMAIN OptionWeights, d \in 1..MaxRaise :
              Greater(NormalizedWeights(RaisedWeights(i, d))[i],
                      NormalizedWeights(OptionWeights)[i])
        /\ ScoreMonotone

\* C22 amended: raising the configured weight of one sub-score never lowers
\* its normalized weight, and raises it strictly unless the weight was
\* positive and every other weight is 0, when the normalized weight is 1
\* before and after; for fixed weights the final score is non-decreasing in
\* each sub-score.
C22_ScorerMonotone ==
    (IsOptionCall /\ call.done) =>
        /\ \A i \in DOMAIN OptionWeights, d \in 1..MaxRaise :
              IF OptionWeights[i] > 0 /\ OthersZero(i)
              THEN /\ NormalizedWeights(OptionWeights)[i] = Frac(1, 1)
                   /\ NormalizedWeights(RaisedWeights(i, d))[i] = Frac(1, 1)
              ELSE Greater(NormalizedWeights(RaisedWeights(i, d))[i],
                           NormalizedWeights(OptionWeights)[i])
        /\ ScoreMonotone

\* Weights 1, 0, 0, 0 and a set with a positive final score: raising the
\* first weight leaves its share at 1, raising another lowers it.
C22_Witness ==
    /\ call.fn = "recommendHeroSetWith" /\ call.done
    /\ OptionWeights = <<1, 0, 0, 0>>
    /\ NormalizedWeights(RaisedWeights(1, 1))[1] = Frac(1, 1)
    /\ NormalizedWeights(RaisedWeights(2, 1))[2] = Frac(1, 2)
    /\ \E n \in DOMAIN call.result.analysis :
          Greater(call.result.analysis[n].final_score, Zero)

Recorded == lastAction'.type = "handleRecordChoice" /\ lastAction'.recorded

\* C24: a recorded choice appends exactly one entry to round_history, with
\* the number and type of the round just played, the chosen set and its
\* index, and leaves the earlier entries as they were; nothing else changes
\* the history of a draft; so the round_number fields of the entries are
\* 1, 2, ..., k in order.
C24_HistoryAppendOnly ==
    [][IsDraft(gameState') =>
         /\ \A i \in DOMAIN gameState'.round_history :
                gameState'.round_history[i].round_number = i
         /\ Recorded =>
                /\ IsDraft(gameState)
                /\ gameState'.round_history =
                      Append(gameState.round_history,
                             [round_number |-> gameState.round_number,
                              round_type   |-> getRoundType(gameState.round_number),
                              chosen_set   |-> lastAction'.chosenSet,
                              set_index    |-> selectedOptionIndex[1]])
         /\ (~Recorded /\ IsDraft(gameState)) =>
                gameState'.round_history = gameState.round_history]_vars

\* Five choices recorded, the last one just now.
C24_Witness ==
    /\ lastAction.type = "handleRecordChoice" /\ lastAction.recorded
    /\ IsDraft(gameState)
    /\ Len(gameState.round_history) = 5
    /\ gameState.round_history[5].round_number = 5
    /\ gameState.round_history[5].chosen_set = lastAction.chosenSet

\* C25: a started draft can always be driven to completion; in particular
\* the interstitial shown at round 7 is left by DISMISS_ROUND7_INTERSTITIAL,
\* which sets round7_interstitial_dismissed, after which the board of round
\* 7 (option entry, recommendation, RECORD_CHOICE) is shown.
C25_InterstitialDismissed ==
    [][lastAction'.type = "DISMISS_ROUND7_INTERSTITIAL" =>
          /\ "round7_interstitial_dismissed" \in DOMAIN gameState'
          /\ gameState'.round7_interstitial_dismissed
          /\ ~InterstitialShown'
          /\ BoardShown']_vars

\* C26: a recommendation that is displayed was computed for the current
\* round from option sets equal to the current currentRoundInputs: every
\* analysed set is the set now entered at its index, of the current round's
\* size.
C26_RecommendationCurrent ==
    currentRecommendation # Null =>
        /\ IsDraft(gameState)
        /\ \A n \in DOMAIN currentRecommendation.analysis :
              LET a == currentRecommendation.analysis[n]
              IN /\ a.items = currentRoundInputs[SetNameOf(a.set_index)]
                 /\ Len(a.items) = getItemsPerSet(gameState.round_number)

TeamEdit(a) == a.type \in {"UPDATE_TEAM", "ADD_TEAM_MEMBER", "REMOVE_TEAM_MEMBER"}

\* C27: UPDATE_TEAM, ADD_TEAM_MEMBER and REMOVE_TEAM_MEMBER on a draft change
\* current_heroes and current_skills only: round_number, round_history,
\* currentRoundInputs, selectedOptionIndex and currentRecommendation stay as
\* they were.
C27_TeamEditFrame ==
    [][(TeamEdit(lastAction') /\ lastAction' # lastAction /\ IsDraft(gameState)) =>
          /\ IsDraft(gameState')
          /\ gameState'.round_number = gameState.round_number
          /\ gameState'.round_history = gameState.round_history
          /\ currentRoundInputs' = currentRoundInputs
          /\ selectedOptionIndex' = selectedOptionIndex
          /\ currentRecommendation' = currentRecommendation]_vars

\* The second seed hero has just been removed in round 2, with a set
\* entered, a recommendation and a selection in place.
C27_Witness ==
    /\ lastAction.type = "REMOVE_TEAM_MEMBER" /\ lastAction.memberType = "hero"
    /\ IsDraft(gameState)
    /\ gameState.round_number = 2
    /\ Len(gameState.round_history) = 1
    /\ ~Includes(gameState.current_heroes, 2)
    /\ currentRoundInputs.set1 # <<>>
    /\ selectedOptionIndex = <<0>>
    /\ currentRecommendation # Null

\* C28: whenever gameState is set it is a well-formed draft: it has
\* round_number >= 1, a round_history of round_number - 1 entries and the
\* lists current_heroes and current_skills; no dispatch, a team edit before
\* a game is started included, makes a gameState without round_number or
\* round_history.
C28_WellFormedDraft ==
    gameState # Null =>
        /\ DOMAIN gameState = {"current_heroes", "current_skills", "round_number",
                               "round_history"}
        /\ gameState.round_number >= 1
        /\ Len(gameState.round_history) = gameState.round_number - 1

\* C29: RESET_GAME leaves gameState null, the round inputs empty, the
\* selection, the recommendation and the error cleared, and availableHeroes,
\* availableSkills and databaseLoaded as they were; the cookie is removed and
\* not written again, so a page load after it restores no game.
C29_ResetErasesProgress ==
    [][/\ (lastAction'.type = "handleResetProgress" /\ lastAction' # lastAction) =>
            /\ gameState' = Null
            /\ currentRoundInputs' = EmptyRoundInputs
            /\ selectedOptionIndex' = <<>>
            /\ currentRecommendation' = Null
            /\ error' = "null"
            /\ availableHeroes' = availableHeroes
            /\ availableSkills' = availableSkills
            /\ databaseLoaded' = databaseLoaded
            /\ cookie' = Null
       /\ (lastAction.type = "handleResetProgress" /\ lastAction'.type = "Reload") =>
            /\ gameState' = Null
            /\ currentRoundInputs' = EmptyRoundInputs
            /\ cookie' = Null]_vars

\* A reset of a draft in progress, while a recommendation is awaited: the
\* database lists are kept, the cookie is gone.
C29_Witness ==
    /\ lastAction.type = "handleResetProgress"
    /\ pending # Null
    /\ gameState = Null
    /\ cookie = Null
    /\ availableHeroes = DatabaseItems.heroes
    /\ databaseLoaded

\* Every recorded choice had the type and the size of its round.
ByTheRounds(gs) ==
    \A i \in DOMAIN gs.round_history :
        /\ gs.round_history[i].round_type = (IF i \in {1, 4, 7} THEN "hero" ELSE "skill")
        /\ Len(gs.round_history[i].chosen_set) = RequiredSize(i)

\* The rounds played before round_number.
Played(gs) == 1..(gs.round_number - 1)

\* C30: in a draft started from 4 seed heroes and 4 seed skills and advanced
\* by choices of the round's type and size only, after the rounds played
\* the team has 4 heroes plus 3 for each of rounds 1 and 4 played plus 2 for
\* round 7, and 4 skills plus 3 for each skill round played: never more
\* than 12 heroes, and 12 heroes and 19 skills when the 8 rounds are played.
C30_PoolSizes ==
    (/\ IsDraft(gameState)
     /\ Len(gameState.current_heroes) >= 4
     /\ SubSeq(gameState.current_heroes, 1, 4) = <<1, 2, 3, 4>>
     /\ ByTheRounds(gameState)) =>
        /\ Len(gameState.current_heroes) =
              4 + 3 * Cardinality(Played(gameState) \cap {1, 4})
                + 2 * Cardinality(Played(gameState) \cap {7})
        /\ Len(gameState.current_skills) =
              4 + 3 * Cardinality(Played(gameState) \ {1, 4, 7})
        /\ Len(gameState.current_heroes) <= 12
        /\ gameState.round_number = 9 =>
              /\ Len(gameState.current_heroes) = 12
              /\ Len(gameState.current_skills) = 19

\* The eighth choice recorded, every one by the rounds: 12 heroes and 19
\* skills.
C30_Witness ==
    /\ IsDraft(gameState)
    /\ lastAction.type = "RECORD_CHOICE"
    /\ Len(gameState.current_heroes) >= 4
    /\ SubSeq(gameState.current_heroes, 1, 4) = <<1, 2, 3, 4>>
    /\ ByTheRounds(gameState)
    /\ gameState.round_number = 9
    /\ Len(gameState.current_heroes) = 12
    /\ Len(gameState.current_skills) = 19

====
